---- MODULE Spec2Model ----
(***************************************************************************)
(* Reliable message delivery (Go-Back-N / Selective Repeat) over a         *)
(* simulated channel: packet codec, handshake, sender window engine and    *)
(* the server's connection loop, modelled from the Python sources.         *)
(*                                                                         *)
(* Bytes are the integers 0..255, a byte string is a sequence of bytes.    *)
(* A socket stream is a sequence of written packets (each a byte string);  *)
(* one recv call returns the concatenation of the first k of them.         *)
(***************************************************************************)
EXTENDS Integers, Sequences, FiniteSets, TLC

VARIABLES
    \* ---- Client (src/src/client.py)
    c_pc,                 \* "new" | "syn_sent" | "ready" | "fill" | "poll" | "disc_wait"
    c_sock,               \* self._socket: "unset" | "open" | "closed"
    c_blocking,           \* socket mode: "blocking" | "nonblocking" | "timeout"
    handshake_complete,
    session_id,
    c_protocol,           \* self.protocol: "gbn" | "sr"
    c_max_fragment_size,
    c_window_size,
    c_channel,            \* [loss, corruption, delay] probabilities of the client
    base_seq_num,
    next_seq_num,
    packet_buffer,        \* seq -> encoded packet
    ack_received,         \* set of seq (SR)
    retry_count,
    since_last_action,    \* time.time() - last_action_time against self.timeout, and
                          \* whether an ACK/NACK came since: "within" | "within_acked"
                          \* | "over_acked" | "over"
    c_message,            \* the argument of the running / last send_message
    fragments,            \* what execute_sliding_window was given
    c_call,               \* the running / last call: "none" | "connect" | "send" | "disconnect"
    c_result,             \* its result: "none" (running) | "true" | "false" | "raised" | "returned"
    c_last,               \* the last event the sender handled: [op, seq, base]
    \* ---- Server (src/src/server.py)
    s_pc,                 \* "accept" | "hs_syn" | "hs_ack" | "messages" | "peer"
    s_sock,               \* the accepted client_socket: "none" | "open" | "closed"
    client_sessions,      \* client_address -> session
    s_channel,            \* [loss, corruption, delay] probabilities of the server
    s_delivered,          \* history: the payloads the receiver engine accepted, in order
    s_dropped,            \* history: the message loop has dropped bytes that failed to parse
    \* ---- the two directions of the TCP stream
    c2s,
    s2c,
    \* ---- codec harness (create_packet / parse_packet on given inputs)
    pk_in,          \* what create_packet was given: [type, sequence, payload]
    pk_raw,         \* the bytes handed to parse_packet
    pk_out,         \* NetworkDevice.parse_packet's result
    pk_legacy_out,  \* the first-iteration Server.parse_packet's result
    pk_step,        \* "start" | "encoded" | "tampered" | "decoded"
    \* ---- a second client and its connection, queued by listen(5)
    second,         \* [pc, c2s, s2c]: its position and the two directions of its stream
    \* ---- channel harness (simulate_channel on given inputs)
    ch_data,        \* what simulate_channel was given: [py, value]
    ch_out          \* what the call did: an outcome of simulate_channel (kind "none": no call yet)

codecVars == <<pk_in, pk_raw, pk_out, pk_legacy_out, pk_step>>

clientVars ==
    <<c_pc, c_sock, c_blocking, handshake_complete, session_id, c_protocol,
      c_max_fragment_size, c_window_size, c_channel, base_seq_num, next_seq_num,
      packet_buffer, ack_received, retry_count, since_last_action, c_message,
      fragments, c_call,
      c_result, c_last>>

serverVars == <<s_pc, s_sock, client_sessions, s_channel, s_delivered, s_dropped>>

netVars == <<c2s, s2c>>

channelVars == <<ch_data, ch_out>>

vars == <<clientVars, serverVars, netVars, codecVars, second, channelVars>>

-----------------------------------------------------------------------------
(* Bound of the codec harness: the longest payload drawn *)

MaxPayloadLen == 2

-----------------------------------------------------------------------------
(* Packet types *)

DATA_TYPE == 0
ACK_TYPE == 1
SYN_TYPE == 2
HANDSHAKE_ACK_TYPE == 3
NACK_TYPE == 4
DISCONNECT_TYPE == 5

PacketTypes ==
    {DATA_TYPE, ACK_TYPE, SYN_TYPE, HANDSHAKE_ACK_TYPE, NACK_TYPE, DISCONNECT_TYPE}

HEADER_SIZE == 11

-----------------------------------------------------------------------------
(* Byte strings *)

ByteValues == {0, 1, 255}

RECURSIVE BytesUpTo(_)
BytesUpTo(n) ==
    IF n = 0 THEN {<<>>}
    ELSE LET shorter == BytesUpTo(n - 1)
         IN  shorter \cup {Append(s, b) : s \in {t \in shorter : Len(t) = n - 1},
                                          b \in ByteValues}

RECURSIVE Pow(_, _)
Pow(b, e) == IF e = 0 THEN 1 ELSE b * Pow(b, e - 1)

\* struct.pack big-endian unsigned integer of w bytes ('!I' w = 4, '!H' w = 2)
PackBE(n, w) == [i \in 1..w |-> (n \div Pow(256, w - i)) % 256]

\* struct.unpack of a big-endian unsigned integer
RECURSIVE UnpackBE(_)
UnpackBE(bs) ==
    IF bs = <<>> THEN 0
    ELSE UnpackBE(SubSeq(bs, 1, Len(bs) - 1)) * 256 + bs[Len(bs)]

\* Python slice b[lo:hi] (0-based, clipped to the string)
Slice(bs, lo, hi) ==
    LET h == IF hi > Len(bs) THEN Len(bs) ELSE hi
    IN  IF lo >= h THEN <<>> ELSE SubSeq(bs, lo + 1, h)

\* hashlib.md5(data).digest()[:4]: a 4-byte digest of the payload alone.
\* The digest is a positional fold kept below 2^31, one-to-one on the byte
\* strings the model draws (MD5 has no collision among them either).
RECURSIVE DigestNumber(_)
DigestNumber(data) ==
    IF data = <<>> THEN 0
    ELSE (DigestNumber(SubSeq(data, 1, Len(data) - 1)) % 8355967) * 257
            + data[Len(data)] + 1

calculate_checksum(data) == PackBE(DigestNumber(data), 4)

\* create_packet with the sequence number packed as one byte ('!IBB4s' padded)
create_packet_byte_sequence(message_type, payload, sequence_num) ==
    PackBE(Len(payload), 4) \o <<message_type>> \o PackBE(sequence_num % 256, 2)
        \o calculate_checksum(payload) \o payload

\* '!IBH4s': length (4) + type (1) + sequence (2) + checksum (4), then payload
create_packet(message_type, payload, sequence_num) ==
    PackBE(Len(payload), 4) \o <<message_type>> \o PackBE(sequence_num, 2)
        \o calculate_checksum(payload) \o payload

NoPacket == [res |-> "none", type |-> 0, sequence |-> 0, payload |-> <<>>, length |-> 0]

StructError == [res |-> "raised", type |-> 0, sequence |-> 0, payload |-> <<>>, length |-> 0]

Packet(t, s, p, l) == [res |-> "packet", type |-> t, sequence |-> s, payload |-> p, length |-> l]

\* a parse_packet that does not verify the checksum
parse_packet_unverified(packet) ==
    IF Len(packet) < HEADER_SIZE THEN NoPacket
    ELSE LET payload_length == UnpackBE(SubSeq(packet, 1, 4))
         IN  IF Len(packet) < HEADER_SIZE + payload_length THEN NoPacket
             ELSE Packet(packet[5], UnpackBE(SubSeq(packet, 6, 7)),
                         Slice(packet, HEADER_SIZE, HEADER_SIZE + payload_length),
                         payload_length)

\* NetworkDevice.parse_packet
parse_packet(packet) ==
    IF Len(packet) < HEADER_SIZE THEN NoPacket
    ELSE LET payload_length == UnpackBE(SubSeq(packet, 1, 4))
             message_type   == packet[5]
             sequence_num   == UnpackBE(SubSeq(packet, 6, 7))
             checksum       == SubSeq(packet, 8, 11)
         IN  IF Len(packet) < HEADER_SIZE + payload_length THEN NoPacket
             ELSE LET payload == Slice(packet, HEADER_SIZE, HEADER_SIZE + payload_length)
                  IN  IF calculate_checksum(payload) # checksum THEN NoPacket
                      ELSE Packet(message_type, sequence_num, payload, payload_length)

\* Server.parse_packet / Client.parse_packet of the first socket iteration:
\* no length check, struct.unpack raises struct.error on a short header
legacy_parse_packet(packet) ==
    LET header == Slice(packet, 0, 11)
    IN  IF Len(header) < 11 THEN StructError
        ELSE LET payload_length == UnpackBE(SubSeq(header, 1, 4))
                 message_type   == header[5]
                 sequence_num   == UnpackBE(SubSeq(header, 6, 7))
                 checksum       == SubSeq(header, 8, 11)
                 payload        == Slice(packet, 11, 11 + payload_length)
             IN  IF calculate_checksum(payload) # checksum THEN NoPacket
                 ELSE Packet(message_type, sequence_num, payload, payload_length)

-----------------------------------------------------------------------------
(* Program constants and the inputs the model draws *)

BUFFER_SIZE == 1024
max_retries == 5
SERVER_MAX_FRAGMENT_SIZE == 3

DEFAULT_WINDOW_SIZE == 4

MaxMsgLen == 2
MaxWindow == 3
MaxFragments == 3
MaxPending == 1

ClientAddr == "127.0.0.1:50000"

\* hashlib.md5(f"{client_address}{hostname}").hexdigest()[:8], as one byte
SessionIdOf(addr) == 171

Protocols == {"gbn", "sr"}

\* "HELLOWORLD"
HelloWorld == <<72, 69, 76, 76, 79, 87, 79, 82, 76, 68>>

Messages == {SubSeq(HelloWorld, 1, n) : n \in 0..MaxMsgLen} \cup {HelloWorld}

\* the fragment sizes a client proposes: below, at and above the server's ceiling
FragSizes == {1, SERVER_MAX_FRAGMENT_SIZE, SERVER_MAX_FRAGMENT_SIZE + 1}

\* the window sizes a client proposes
WindowSizes == {0, 1, DEFAULT_WINDOW_SIZE}

\* a probability of exactly 0.0, strictly between, exactly 1.0
Normal == [loss |-> "zero", corruption |-> "zero", delay |-> "zero"]

ClientChannels ==
    { Normal,
      [loss |-> "one", corruption |-> "zero", delay |-> "zero"],
      [loss |-> "zero", corruption |-> "one", delay |-> "zero"] }

ServerChannels ==
    { Normal,
      [loss |-> "one", corruption |-> "zero", delay |-> "zero"],
      [loss |-> "zero", corruption |-> "one", delay |-> "zero"],
      [loss |-> "mid", corruption |-> "mid", delay |-> "zero"] }

NoEvent == [op |-> "none", seq |-> 0, base |-> 0]

Event(o, s, b) == [op |-> o, seq |-> s, base |-> b]

\* the state a Client has right after __init__, for given constructor arguments
ClientConstructed(protocol, max_fragment_size, window_size) ==
    /\ c_pc = "new"
    /\ c_sock = "unset"
    /\ c_blocking = "blocking"
    /\ handshake_complete = FALSE
    /\ session_id = 0
    /\ c_protocol = protocol
    /\ c_max_fragment_size = max_fragment_size
    /\ c_window_size = window_size
    /\ c_channel = Normal
    /\ base_seq_num = 0
    /\ next_seq_num = 0
    /\ packet_buffer = <<>>
    /\ ack_received = {}
    /\ retry_count = 0
    /\ since_last_action = "within"
    /\ c_message = <<>>
    /\ fragments = <<>>
    /\ c_call = "none"
    /\ c_result = "none"
    /\ c_last = NoEvent

\* the state a Server has right after __init__
ServerConstructed ==
    /\ s_pc = "accept"
    /\ s_sock = "none"
    /\ client_sessions = <<>>
    /\ s_channel = Normal
    /\ s_delivered = <<>>
    /\ s_dropped = FALSE

NetEmpty == c2s = <<>> /\ s2c = <<>>

CodecIdle ==
    /\ pk_in = [type |-> 0, sequence |-> 0, payload |-> <<>>]
    /\ pk_raw = <<>>
    /\ pk_out = NoPacket
    /\ pk_legacy_out = NoPacket
    /\ pk_step = "start"

\* no second client has connected
NoSecond == second = [pc |-> "new", c2s |-> <<>>, s2c |-> <<>>]

ChannelIdle ==
    /\ ch_data = [py |-> "bytes", value |-> <<>>]
    /\ ch_out = [kind |-> "none", data |-> <<>>, corrupted |-> FALSE, slept |-> FALSE]

-----------------------------------------------------------------------------
(* Sockets: a stream is the sequence of the packets written to it *)

RECURSIVE Flatten(_)
Flatten(packets) ==
    IF packets = <<>> THEN <<>> ELSE Head(packets) \o Flatten(Tail(packets))

\* socket.recv(BUFFER_SIZE) returning the first k packets written, as one byte string
RecvChunk(stream, k) == Flatten(SubSeq(stream, 1, k))

RecvRest(stream, k) == SubSeq(stream, k + 1, Len(stream))

\* the byte strings recv can return from a stream: a chunk for each k that fits
RecvSizes(stream) ==
    {k \in 1..Len(stream) : Len(RecvChunk(stream, k)) <= BUFFER_SIZE}

-----------------------------------------------------------------------------
(* Handshake payloads: json.dumps / json.loads of the parameter records,   *)
(* one byte per field                                                       *)

ProtocolByte(protocol) == CASE protocol = "gbn" -> 0 [] protocol = "sr" -> 1 [] OTHER -> 2

ByteProtocol(b) == CASE b = 0 -> "gbn" [] b = 1 -> "sr" [] OTHER -> "other"

\* json.dumps(self.connection_params)
SynJson(protocol, max_fragment_size, window_size) ==
    <<ProtocolByte(protocol), max_fragment_size, window_size>>

\* a response whose fragment size and window size fields are exchanged
SynAckJsonFieldsExchanged(status, protocol, max_fragment_size, window_size, sid) ==
    <<status, ProtocolByte(protocol), window_size, max_fragment_size, sid>>

\* json.dumps(response) of handle_syn; status 1 is 'ok'
SynAckJson(status, protocol, max_fragment_size, window_size, sid) ==
    <<status, ProtocolByte(protocol), max_fragment_size, window_size, sid>>

\* json.dumps({'session_id': ..., 'message': 'Connection established'})
HandshakeAckJson(sid) == <<sid>>

\* the texts sent as payloads, by their first letter
DisconnectText == <<68>>
AckText == <<65>>
NackText == <<78>>

-----------------------------------------------------------------------------
(* Channel simulator *)

Lost == [kind |-> "lost", data |-> <<>>, corrupted |-> FALSE, slept |-> FALSE]

\* an outcome of a call that went past the loss test
Outcome(kind, data, corrupted, slept) ==
    [kind |-> kind, data |-> data, corrupted |-> corrupted, slept |-> slept]

\* the delay branch and the final return: time.sleep(delay_time), return data
DelayBranch(data, channel) ==
    CASE channel.delay = "one" -> {Outcome("passed", data, FALSE, TRUE)}
      [] channel.delay = "mid" -> {Outcome("passed", data, FALSE, TRUE),
                                   Outcome("passed", data, FALSE, FALSE)}
      [] OTHER -> {Outcome("passed", data, FALSE, FALSE)}

\* a simulator that tests corruption before loss
simulate_channel_corruption_first(data, channel) ==
    LET corrupted ==
            IF Len(data) = 0 THEN {Outcome("raised", <<>>, FALSE, FALSE)}
            ELSE {Outcome("passed", [data EXCEPT ![i] = (data[i] + 1) % 256],
                          TRUE, FALSE) : i \in 1..Len(data)}
        lossBranch ==
            CASE channel.loss = "one" -> {Lost}
              [] channel.loss = "mid" -> {Lost} \cup DelayBranch(data, channel)
              [] OTHER -> DelayBranch(data, channel)
    IN  CASE channel.corruption = "one" -> corrupted
          [] channel.corruption = "mid" -> corrupted \cup lossBranch
          [] OTHER -> lossBranch

\* NetworkDevice.simulate_channel on a byte string: the set of its outcomes.
\* A probability strictly between 0 and 1 allows both branches; corrupting
\* an empty byte string raises IndexError (data[0] of an empty bytearray).
\* The corruption branch returns at once, so a corrupted packet is not delayed.
simulate_channel(data, channel) ==
    LET corrupted ==
            IF Len(data) = 0 THEN {Outcome("raised", <<>>, FALSE, FALSE)}
            ELSE {Outcome("passed", [data EXCEPT ![i] = (data[i] + 1) % 256],
                          TRUE, FALSE) : i \in 1..Len(data)}
        afterLoss ==
            CASE channel.corruption = "one" -> corrupted
              [] channel.corruption = "mid" -> corrupted \cup DelayBranch(data, channel)
              [] OTHER -> DelayBranch(data, channel)
    IN  CASE channel.loss = "one" -> {Lost}
          [] channel.loss = "mid" -> {Lost} \cup afterLoss
          [] OTHER -> afterLoss

\* NetworkDevice.simulate_channel on the str that send_message passes:
\* bytearray(str) raises TypeError on the corruption branch
simulate_channel_str(message, channel) ==
    LET corrupted == {Outcome("raised", <<>>, FALSE, FALSE)}
        afterLoss ==
            CASE channel.corruption = "one" -> corrupted
              [] channel.corruption = "mid" -> corrupted \cup DelayBranch(message, channel)
              [] OTHER -> DelayBranch(message, channel)
    IN  CASE channel.loss = "one" -> {Lost}
          [] channel.loss = "mid" -> {Lost} \cup afterLoss
          [] OTHER -> afterLoss

-----------------------------------------------------------------------------
(* Sender window engine: the pure parts *)

\* Python range(start, stop, step) for step > 0, as a sequence
RECURSIVE PyRange(_, _, _)
PyRange(start, stop, step) ==
    IF start >= stop THEN <<>> ELSE <<start>> \o PyRange(start + step, stop, step)

\* Client.fragment_message: for i in range(0, max_fragment_size, max_fragment_size)
fragment_message(message, max_fragment_size) ==
    LET starts == PyRange(0, max_fragment_size, max_fragment_size)
    IN  [j \in 1..Len(starts) |->
            Slice(message, starts[j], starts[j] + max_fragment_size)]

\* the window state handle_ack / handle_nack / handle_timeout read and write
Window ==
    [protocol |-> c_protocol, base_seq_num |-> base_seq_num,
     next_seq_num |-> next_seq_num, packet_buffer |-> packet_buffer,
     ack_received |-> ack_received]

Without(buffer, seqs) == [s \in (DOMAIN buffer) \ seqs |-> buffer[s]]

\* while self.base_seq_num in self.ack_received: base_seq_num += 1
RECURSIVE SlideBase(_, _)
SlideBase(base, acked) == IF base \in acked THEN SlideBase(base + 1, acked) ELSE base

\* handle_ack's Go-Back-N branch without the test for an old ACK
handle_ack_gbn_unguarded(w, ack_seq) ==
    [w EXCEPT !.base_seq_num = ack_seq + 1,
              !.packet_buffer = Without(w.packet_buffer, (w.base_seq_num)..ack_seq)]

\* Client.handle_ack, Go-Back-N branch
handle_ack_gbn(w, ack_seq) ==
    IF ack_seq < w.base_seq_num THEN w
    ELSE [w EXCEPT !.base_seq_num = ack_seq + 1,
                   !.packet_buffer = Without(w.packet_buffer, (w.base_seq_num)..ack_seq)]

\* handle_ack's Selective Repeat branch with an if in place of the while:
\* the base moves by one position at most
handle_ack_sr_single_step(w, ack_seq) ==
    LET acked == w.ack_received \cup {ack_seq}
        base  == IF w.base_seq_num \in acked THEN w.base_seq_num + 1 ELSE w.base_seq_num
    IN  [w EXCEPT !.ack_received = acked,
                  !.base_seq_num = base,
                  !.packet_buffer = Without(w.packet_buffer, (w.base_seq_num)..(base - 1))]

\* Client.handle_ack, Selective Repeat branch
handle_ack_sr(w, ack_seq) ==
    LET acked == w.ack_received \cup {ack_seq}
        base  == SlideBase(w.base_seq_num, acked)
    IN  [w EXCEPT !.ack_received = acked,
                  !.base_seq_num = base,
                  !.packet_buffer = Without(w.packet_buffer, (w.base_seq_num)..(base - 1))]

\* a handle_ack that sets the base to the number after the ACK's, old or new
handle_ack_base_follows_ack(w, ack_seq) ==
    [w EXCEPT !.base_seq_num = ack_seq + 1]

\* Client.handle_ack
handle_ack(w, ack_seq) ==
    IF w.protocol = "gbn" THEN handle_ack_gbn(w, ack_seq) ELSE handle_ack_sr(w, ack_seq)

\* the sequence numbers of range(lo, hi) that satisfy keep, in order
RECURSIVE SeqsInOrder(_, _, _)
SeqsInOrder(lo, hi, keep) ==
    IF lo >= hi THEN <<>>
    ELSE (IF lo \in keep THEN <<lo>> ELSE <<>>) \o SeqsInOrder(lo + 1, hi, keep)

\* a handle_nack that resends the NACKed packet alone for both protocols
handle_nack_selective(w, nack_seq) ==
    IF nack_seq \in DOMAIN w.packet_buffer THEN <<nack_seq>> ELSE <<>>

\* Client.handle_nack: the sequence numbers it resends, in order
handle_nack(w, nack_seq) ==
    IF w.protocol = "gbn"
    THEN SeqsInOrder(w.base_seq_num, w.next_seq_num, DOMAIN w.packet_buffer)
    ELSE IF nack_seq \in DOMAIN w.packet_buffer THEN <<nack_seq>> ELSE <<>>

\* a handle_timeout that resends the whole window for both protocols
handle_timeout_resend_whole_window(w) ==
    SeqsInOrder(w.base_seq_num, w.next_seq_num, DOMAIN w.packet_buffer)

\* Client.handle_timeout: the sequence numbers it resends, in order
handle_timeout_resend(w) ==
    IF w.protocol = "gbn"
    THEN SeqsInOrder(w.base_seq_num, w.next_seq_num, DOMAIN w.packet_buffer)
    ELSE SeqsInOrder(w.base_seq_num, w.next_seq_num,
                     (DOMAIN w.packet_buffer) \ w.ack_received)

\* the sequence numbers send_packets_in_window sends, in order
WindowToSend(w, nfragments, window_size) ==
    LET limit == IF nfragments < w.base_seq_num + window_size
                 THEN nfragments ELSE w.base_seq_num + window_size
    IN  SeqsInOrder(w.next_seq_num, limit, (w.next_seq_num)..(limit - 1))

\* the DATA packet of fragment seq (sequence numbers are 0-based)
data_packet(frags, seq) == create_packet(DATA_TYPE, frags[seq + 1], seq)

-----------------------------------------------------------------------------
(* Client *)

\* sendall on the client's socket: with the peer's end open all n packets are
\* written; with it closed each write either passes unnoticed or raises
\* (BrokenPipeError / ConnectionResetError), so any number j <= n is written
\* before the exception (j = n: no exception)
SendOutcomes(n) == IF s_sock = "closed" THEN 0..n ELSE {n}

\* the stream after the client wrote packets
Written(packets) == IF s_sock = "closed" THEN c2s ELSE c2s \o packets

\* the peer has read all but fewer than MaxPending of the packets written so far
\* (the stream's capacity: a handler that writes starts only then)
RoomToWrite == Len(c2s) < MaxPending

sessionVars == <<handshake_complete, session_id, c_protocol, c_max_fragment_size, c_window_size>>

windowVars ==
    <<base_seq_num, next_seq_num, packet_buffer, ack_received, retry_count,
      since_last_action>>

\* Client.connect up to the blocking recv: create the socket, connect (the
\* server's accept returns), send SYN
Client_connect ==
    /\ c_pc = "new"
    /\ s_pc = "accept"
    /\ s_sock = "none"
    /\ c_sock' = "open"
    /\ s_sock' = "open"
    /\ s_pc' = "hs_syn"
    /\ c2s' = Append(c2s, create_packet(SYN_TYPE,
                 SynJson(c_protocol, c_max_fragment_size, c_window_size), 0))
    /\ c_pc' = "syn_sent"
    /\ c_call' = "connect"
    /\ c_result' = "none"
    /\ UNCHANGED <<c_blocking, sessionVars, c_channel, windowVars, c_message, fragments,
                   c_last, client_sessions, s_channel, s_delivered, s_dropped, s2c, codecVars, second, channelVars>>

\* Client.connect from the recv of the SYN-ACK to its return
Client_connect_syn_ack ==
    /\ c_pc = "syn_sent"
    /\ c_pc' = "ready"
    /\ \/ \* recv returned b'': ConnectionError
          /\ s2c = <<>>
          /\ s_sock = "closed"
          /\ c_result' = "false"
          /\ UNCHANGED <<sessionVars, c2s, s2c>>
       \/ \E k \in RecvSizes(s2c) :
            LET parsed == parse_packet(RecvChunk(s2c, k))
                syn_ack == parsed.payload
                ok == parsed.res = "packet" /\ Len(syn_ack) = 5 /\ syn_ack[1] = 1
            IN  /\ s2c' = RecvRest(s2c, k)
                /\ IF ~ok
                   THEN /\ c_result' = "false"
                        /\ UNCHANGED <<sessionVars, c2s>>
                   ELSE /\ session_id' = syn_ack[5]
                        /\ c_max_fragment_size' = syn_ack[3]
                        /\ c_protocol' = ByteProtocol(syn_ack[2])
                        /\ c_window_size' = syn_ack[4]
                        /\ \E j \in SendOutcomes(1) :
                             IF j = 1
                             THEN /\ c2s' = Written(<<create_packet(HANDSHAKE_ACK_TYPE,
                                                     HandshakeAckJson(syn_ack[5]), 0)>>)
                                  /\ handshake_complete' = TRUE
                                  /\ c_result' = "true"
                             ELSE /\ c2s' = c2s
                                  /\ handshake_complete' = FALSE
                                  /\ c_result' = "false"
    /\ UNCHANGED <<c_sock, c_blocking, c_channel, windowVars, c_message, fragments,
                   c_call, c_last, serverVars, codecVars, second, channelVars>>

\* NetworkDevice.set_channel_conditions on the client, between two calls
Client_set_channel_conditions ==
    /\ c_pc \in {"new", "ready"}
    /\ \E ch \in ClientChannels : c_channel' = ch
    /\ c_channel' # c_channel
    /\ UNCHANGED <<c_pc, c_sock, c_blocking, sessionVars, windowVars, c_message, fragments,
                   c_call, c_result, c_last, serverVars, netVars, codecVars, second, channelVars>>

\* Client.send_message up to the call of execute_sliding_window
Client_send_message ==
    /\ c_pc \in {"new", "ready"}
    /\ \E message \in Messages :
        /\ c_message' = message
        /\ c_call' = "send"
        /\ IF ~handshake_complete
           THEN \* ConnectionError; the handler reads self._socket, never assigned
                \* before connect (AttributeError leaves send_message)
                /\ c_result' = IF c_sock = "unset" THEN "raised" ELSE "false"
                /\ UNCHANGED <<c_pc, c_blocking, windowVars, fragments>>
           ELSE \* reset_parameters, then simulate_channel(message)
                /\ base_seq_num' = 0
                /\ next_seq_num' = 0
                /\ packet_buffer' = <<>>
                /\ ack_received' = {}
                /\ retry_count' = 0
                \* execute_sliding_window: last_action_time = time.time()
                /\ since_last_action' = "within"
                /\ \E out \in simulate_channel_str(message, c_channel) :
                     IF out.kind = "passed"
                     THEN /\ fragments' = fragment_message(out.data, c_max_fragment_size)
                          /\ c_blocking' = "nonblocking"
                          /\ c_pc' = "fill"
                          /\ c_result' = "none"
                     ELSE \* TypeError (bytearray of a str, or slicing None)
                          /\ c_blocking' = "blocking"
                          /\ c_result' = "false"
                          /\ UNCHANGED <<c_pc, fragments>>
    /\ c_last' = NoEvent
    /\ UNCHANGED <<c_sock, sessionVars, c_channel, serverVars, netVars, codecVars, second, channelVars>>

\* send_message after execute_sliding_window returned success: setblocking(True),
\* clear the buffers, return success
ReturnFromWindow(success) ==
    /\ c_blocking' = "blocking"
    /\ packet_buffer' = <<>>
    /\ ack_received' = {}
    /\ c_result' = IF success THEN "true" ELSE "false"
    /\ c_pc' = "ready"

\* send_message's except branch: setblocking(True), return False
RaiseFromWindow ==
    /\ c_blocking' = "blocking"
    /\ c_result' = "false"
    /\ c_pc' = "ready"

\* execute_sliding_window: the loop test, the retry test and send_packets_in_window
Client_send_packets_in_window ==
    /\ c_pc = "fill"
    /\ RoomToWrite
    /\ IF base_seq_num >= Len(fragments)
       THEN /\ ReturnFromWindow(retry_count <= max_retries)
            /\ UNCHANGED <<base_seq_num, next_seq_num, retry_count, c2s, c_last>>
       ELSE IF retry_count > max_retries
       THEN /\ ReturnFromWindow(FALSE)
            /\ UNCHANGED <<base_seq_num, next_seq_num, retry_count, c2s, c_last>>
       ELSE LET seqs == WindowToSend(Window, Len(fragments), c_window_size)
                n == Len(seqs)
            IN  \E j \in SendOutcomes(n) :
                  LET stored == IF j < n THEN j + 1 ELSE n
                      \* packet_buffer[next_seq_num] is set before sendall
                      buffer == [s \in (DOMAIN packet_buffer) \cup
                                       {seqs[i] : i \in 1..stored} |->
                                    IF s \in {seqs[i] : i \in 1..stored}
                                    THEN data_packet(fragments, s)
                                    ELSE packet_buffer[s]]
                  IN  /\ packet_buffer' = buffer
                      /\ next_seq_num' = next_seq_num + j
                      /\ c2s' = Written([i \in 1..j |-> data_packet(fragments, seqs[i])])
                      /\ c_last' = Event("fill", n, base_seq_num)
                      /\ IF j < n
                         THEN /\ RaiseFromWindow
                              /\ UNCHANGED <<ack_received>>
                         ELSE /\ c_pc' = "poll"
                              /\ UNCHANGED <<c_blocking, ack_received, c_result>>
                      /\ UNCHANGED <<base_seq_num, retry_count>>
    /\ UNCHANGED <<c_sock, sessionVars, c_channel, c_message, fragments, c_call,
                   since_last_action, serverVars, s2c, codecVars, second, channelVars>>

\* process_acks: one recv that returned data, and the handling of what it parsed.
\* Neither process_acks nor its handlers assign last_action_time; that an
\* ACK or NACK came since it was set is recorded in since_last_action.
Client_process_acks ==
    /\ c_pc = "poll"
    /\ RoomToWrite
    /\ \E k \in RecvSizes(s2c) :
         LET parsed == parse_packet(RecvChunk(s2c, k))
             acked == CASE since_last_action = "within" -> "within_acked"
                        [] since_last_action = "over" -> "over_acked"
                        [] OTHER -> since_last_action
         IN  /\ s2c' = RecvRest(s2c, k)
             /\ CASE parsed.res = "packet" /\ parsed.type = ACK_TYPE ->
                        LET w == handle_ack(Window, parsed.sequence)
                        IN  /\ base_seq_num' = w.base_seq_num
                            /\ packet_buffer' = w.packet_buffer
                            /\ ack_received' = w.ack_received
                            /\ c_last' = Event("ack", parsed.sequence, base_seq_num)
                            /\ since_last_action' = acked
                            /\ UNCHANGED <<c_pc, c2s>>
                  [] parsed.res = "packet" /\ parsed.type = NACK_TYPE ->
                        LET seqs == handle_nack(Window, parsed.sequence)
                            n == Len(seqs)
                        IN  \E j \in SendOutcomes(n) :
                              /\ c2s' = Written([i \in 1..j |-> packet_buffer[seqs[i]]])
                              /\ c_last' = Event("nack", parsed.sequence, base_seq_num)
                              /\ since_last_action' = acked
                              \* an exception of sendall ends process_acks
                              /\ c_pc' = IF j < n THEN "tick" ELSE "poll"
                              /\ UNCHANGED <<base_seq_num, packet_buffer, ack_received>>
                  [] OTHER ->
                        /\ c_last' = Event("ignored", 0, base_seq_num)
                        /\ UNCHANGED <<c_pc, c2s, base_seq_num, packet_buffer, ack_received,
                                       since_last_action>>
    /\ UNCHANGED <<c_sock, c_blocking, sessionVars, c_channel, next_seq_num, retry_count,
                   c_message, fragments, c_call, c_result, serverVars, codecVars, second, channelVars>>

\* process_acks ends: BlockingIOError (nothing left to read), b'' or an error of recv
Client_process_acks_done ==
    /\ c_pc = "poll"
    /\ s2c = <<>>
    /\ c_pc' = "tick"
    /\ UNCHANGED <<c_sock, c_blocking, sessionVars, c_channel, windowVars, c_message,
                   fragments, c_call, c_result, c_last, serverVars, netVars, codecVars, second, channelVars>>

\* the timeout test of execute_sliding_window is false (not more than
\* self.timeout since last_action_time, or nothing in flight): time.sleep,
\* next iteration.  Any amount of time passes.
Client_no_timeout ==
    /\ c_pc = "tick"
    /\ ~ ( /\ since_last_action \in {"over_acked", "over"}
           /\ base_seq_num < next_seq_num )
    /\ since_last_action' \in
          CASE since_last_action = "within" -> {"within", "over"}
            [] since_last_action = "within_acked" -> {"within_acked", "over_acked", "over"}
            [] since_last_action = "over_acked" -> {"over_acked", "over"}
            [] OTHER -> {"over"}
    /\ c_pc' = "fill"
    /\ UNCHANGED <<c_sock, c_blocking, sessionVars, c_channel, base_seq_num, next_seq_num,
                   packet_buffer, ack_received, retry_count, c_message,
                   fragments, c_call, c_result, c_last, serverVars, netVars, codecVars, second, channelVars>>

\* the timeout test is true (more than self.timeout since last_action_time
\* and packets in flight): handle_timeout, last_action_time = time.time(),
\* then the retry test after it
Client_handle_timeout ==
    /\ c_pc = "tick"
    /\ since_last_action \in {"over_acked", "over"}
    /\ base_seq_num < next_seq_num
    /\ RoomToWrite
    /\ retry_count' = retry_count + 1
    /\ since_last_action' = "within"
    /\ c_last' = Event("timeout", 0, base_seq_num)
    /\ IF retry_count + 1 > max_retries
       THEN /\ ReturnFromWindow(FALSE)
            /\ UNCHANGED <<c2s>>
       ELSE LET seqs == handle_timeout_resend(Window)
                n == Len(seqs)
            IN  \E j \in SendOutcomes(n) :
                  /\ c2s' = Written([i \in 1..j |-> packet_buffer[seqs[i]]])
                  /\ IF j < n
                     THEN /\ RaiseFromWindow
                          /\ UNCHANGED <<packet_buffer, ack_received>>
                     ELSE /\ c_pc' = "fill"
                          /\ UNCHANGED <<c_blocking, packet_buffer, ack_received, c_result>>
    /\ UNCHANGED <<c_sock, sessionVars, c_channel, base_seq_num, next_seq_num, c_message,
                   fragments, c_call, serverVars, s2c, codecVars, second, channelVars>>

\* Client.disconnect up to the recv with its 2 second timeout
Client_disconnect ==
    /\ c_pc = "ready"
    /\ RoomToWrite
    /\ c_call' = "disconnect"
    /\ IF c_sock = "closed"
       THEN \* sendall on the closed socket raises: caught, nothing else happens
            /\ c_result' = "returned"
            /\ UNCHANGED <<c_pc, c_blocking, c2s>>
       ELSE \E j \in SendOutcomes(1) :
              IF j = 1
              THEN /\ c2s' = Written(<<create_packet(DISCONNECT_TYPE, DisconnectText, 0)>>)
                   /\ c_blocking' = "timeout"
                   /\ c_pc' = "disc_wait"
                   /\ c_result' = "none"
              ELSE /\ c_result' = "returned"
                   /\ UNCHANGED <<c_pc, c_blocking, c2s>>
    /\ UNCHANGED <<c_sock, sessionVars, c_channel, windowVars, c_message, fragments,
                   c_last, serverVars, s2c, codecVars, second, channelVars>>

\* Client.disconnect: the recv returned data; close the socket
Client_disconnect_acknowledged ==
    /\ c_pc = "disc_wait"
    /\ \E k \in RecvSizes(s2c) : s2c' = RecvRest(s2c, k)
    /\ c_sock' = "closed"
    /\ handshake_complete' = FALSE
    /\ c_result' = "returned"
    /\ c_pc' = "ready"
    /\ UNCHANGED <<c_blocking, session_id, c_protocol, c_max_fragment_size, c_window_size,
                   c_channel, windowVars, c_message, fragments, c_call, c_last,
                   serverVars, c2s, codecVars, second, channelVars>>

\* Client.disconnect: the recv timed out (socket.timeout) or returned b''
\* (ConnectionError); the except branch only prints
Client_disconnect_unacknowledged ==
    /\ c_pc = "disc_wait"
    /\ s2c = <<>>
    /\ c_result' = "returned"
    /\ c_pc' = "ready"
    /\ UNCHANGED <<c_sock, c_blocking, sessionVars, c_channel, windowVars, c_message,
                   fragments, c_call, c_last, serverVars, netVars, codecVars, second, channelVars>>

-----------------------------------------------------------------------------
(* Server *)

\* the session handle_syn stores
NewSession(protocol, max_fragment_size, window_size, sid) ==
    [protocol |-> protocol, max_fragment_size |-> max_fragment_size,
     window_size |-> window_size, session_id |-> sid, handshake_complete |-> FALSE,
     expected_seq_num |-> 0, received_buffer |-> <<>>, last_ack_sent |-> -1]

\* handle_syn storing the requested fragment size as it is
requested_fragment_size_unclamped(a, b) == a

Min(a, b) == IF a < b THEN a ELSE b

\* the connection ends on the server: the socket is closed, unread bytes are dropped
CloseClientSocket ==
    /\ s_sock' = "closed"
    /\ c2s' = <<>>
    /\ s_pc' = "accept"

\* process_handshake up to its second recv: receive and check the SYN, handle_syn.
\* A failure returns False and start() closes the socket.
Server_process_handshake_syn ==
    /\ s_pc = "hs_syn"
    /\ \/ \* recv returned b''
          /\ c2s = <<>>
          /\ c_sock = "closed"
          /\ CloseClientSocket
          /\ UNCHANGED <<client_sessions, s2c>>
       \/ \E k \in RecvSizes(c2s) :
            LET header == RecvChunk(c2s, k)
                parsed == parse_packet(header)
                data == parsed.payload
                ok == /\ Len(header) >= HEADER_SIZE
                      /\ parsed.res = "packet"
                      /\ parsed.type = SYN_TYPE
                      /\ Len(data) = 3
            IN  IF ~ok
                THEN /\ CloseClientSocket
                     /\ UNCHANGED <<client_sessions, s2c>>
                ELSE \* handle_syn
                     LET client_protocol == ByteProtocol(data[1])
                         max_fragment_size == Min(data[2], SERVER_MAX_FRAGMENT_SIZE)
                         requested_window_size == data[3]
                         sid == SessionIdOf(ClientAddr)
                     IN  /\ client_sessions' =
                               (ClientAddr :> NewSession(client_protocol, max_fragment_size,
                                                         requested_window_size, sid))
                         /\ s2c' = Append(s2c, create_packet(ACK_TYPE,
                                      SynAckJson(1, client_protocol, max_fragment_size,
                                                 requested_window_size, sid), 0))
                         /\ c2s' = RecvRest(c2s, k)
                         /\ s_pc' = "hs_ack"
                         /\ UNCHANGED s_sock
    /\ UNCHANGED <<clientVars, s_channel, s_delivered, s_dropped, codecVars, second, channelVars>>

\* a second step of process_handshake that completes the handshake on any
\* well-formed packet, whatever its type
Server_process_handshake_ack_any_type ==
    /\ s_pc = "hs_ack"
    /\ \E k \in RecvSizes(c2s) :
          /\ parse_packet(RecvChunk(c2s, k)).res = "packet"
          /\ ClientAddr \in DOMAIN client_sessions
          /\ client_sessions' =
                [client_sessions EXCEPT ![ClientAddr].handshake_complete = TRUE]
          /\ c2s' = RecvRest(c2s, k)
          /\ s_pc' = "messages"
    /\ UNCHANGED <<clientVars, s_sock, s_channel, s_delivered, s_dropped, s2c, codecVars, second, channelVars>>

\* process_handshake from its second recv: check the HANDSHAKE_ACK, handle_ack
Server_process_handshake_ack ==
    /\ s_pc = "hs_ack"
    /\ \/ \* recv returned b'': parse_packet(b'') is None
          /\ c2s = <<>>
          /\ c_sock = "closed"
          /\ CloseClientSocket
          /\ UNCHANGED <<client_sessions>>
       \/ \E k \in RecvSizes(c2s) :
            LET parsed == parse_packet(RecvChunk(c2s, k))
                ok == /\ parsed.res = "packet"
                      /\ parsed.type = HANDSHAKE_ACK_TYPE
                      /\ ClientAddr \in DOMAIN client_sessions
            IN  IF ~ok
                THEN /\ CloseClientSocket
                     /\ UNCHANGED <<client_sessions>>
                ELSE /\ client_sessions' =
                          [client_sessions EXCEPT ![ClientAddr].handshake_complete = TRUE]
                     /\ c2s' = RecvRest(c2s, k)
                     /\ s_pc' = "messages"
                     /\ UNCHANGED s_sock
    /\ UNCHANGED <<clientVars, s_channel, s_delivered, s_dropped, s2c, codecVars, second, channelVars>>

\* an end of handle_client_messages that closes the socket and keeps the session
EndClientMessages_session_kept ==
    /\ UNCHANGED client_sessions
    /\ CloseClientSocket

\* the end of handle_client_messages: delete the session, close the socket
EndClientMessages ==
    /\ client_sessions' = [a \in (DOMAIN client_sessions) \ {ClientAddr} |-> client_sessions[a]]
    /\ CloseClientSocket

\* a loop that ends the session on bytes that fail to parse
BreakAfterParseFailure(k) ==
    /\ EndClientMessages
    /\ s_dropped' = TRUE
    /\ UNCHANGED s2c

\* if not parsed: continue.  The bytes read are gone, nothing else changes
ContinueAfterParseFailure(k) ==
    /\ c2s' = RecvRest(c2s, k)
    /\ s_dropped' = TRUE
    /\ UNCHANGED <<client_sessions, s_sock, s_pc, s2c>>

\* dispatch on the type.  DATA is dispatched as
\* self.handle_message(client_socket, client_address, processed_payload, sequence_num):
\* one positional argument more than handle_message takes, a TypeError that the
\* loop's except branch turns into a break.
Server_handle_client_messages ==
    /\ s_pc = "messages"
    /\ ClientAddr \in DOMAIN client_sessions
    /\ \/ \* recv returned b''
          /\ c2s = <<>>
          /\ c_sock = "closed"
          /\ EndClientMessages
          /\ UNCHANGED <<s2c, s_dropped>>
       \/ \E k \in RecvSizes(c2s) :
            LET parsed == parse_packet(RecvChunk(c2s, k))
            IN  IF parsed.res # "packet"
                THEN ContinueAfterParseFailure(k)
                ELSE \E out \in simulate_channel(parsed.payload, s_channel) :
                     /\ UNCHANGED s_dropped
                     /\ CASE out.kind = "lost" ->
                              /\ c2s' = RecvRest(c2s, k)
                              /\ UNCHANGED <<client_sessions, s_sock, s_pc, s2c>>
                         [] out.kind = "raised" ->
                              /\ EndClientMessages
                              /\ UNCHANGED s2c
                         [] out.kind = "passed" /\ out.data # parsed.payload ->
                              /\ s2c' = Append(s2c, create_packet(NACK_TYPE, NackText,
                                                                  parsed.sequence))
                              /\ c2s' = RecvRest(c2s, k)
                              /\ UNCHANGED <<client_sessions, s_sock, s_pc>>
                         [] out.kind = "passed" /\ out.data = parsed.payload
                                /\ parsed.type = DATA_TYPE ->
                              /\ EndClientMessages
                              /\ UNCHANGED s2c
                         [] out.kind = "passed" /\ out.data = parsed.payload
                                /\ parsed.type = DISCONNECT_TYPE ->
                              \* handle_disconnect: acknowledge, delete the session
                              /\ s2c' = Append(s2c, create_packet(ACK_TYPE, AckText, 0))
                              /\ EndClientMessages
                         [] OTHER ->
                              /\ c2s' = RecvRest(c2s, k)
                              /\ UNCHANGED <<client_sessions, s_sock, s_pc, s2c>>
    /\ UNCHANGED <<clientVars, s_channel, s_delivered, codecVars, second, channelVars>>

-----------------------------------------------------------------------------
(* The two endpoints over one connection *)

Init ==
    /\ \E protocol \in Protocols, f \in FragSizes, w \in WindowSizes :
          ClientConstructed(protocol, f, w)
    /\ s_pc = "accept"
    /\ s_sock = "none"
    /\ client_sessions = <<>>
    /\ s_channel \in ServerChannels
    /\ s_delivered = <<>>
    /\ s_dropped = FALSE
    /\ NetEmpty
    /\ CodecIdle
    /\ NoSecond
    /\ ChannelIdle

Next ==
    \/ Client_connect
    \/ Client_connect_syn_ack
    \/ Client_set_channel_conditions
    \/ Client_send_message
    \/ Client_send_packets_in_window
    \/ Client_process_acks
    \/ Client_process_acks_done
    \/ Client_no_timeout
    \/ Client_handle_timeout
    \/ Client_disconnect
    \/ Client_disconnect_acknowledged
    \/ Client_disconnect_unacknowledged
    \/ Server_process_handshake_syn
    \/ Server_process_handshake_ack
    \/ Server_handle_client_messages

Spec == Init /\ [][Next]_vars

-----------------------------------------------------------------------------
(* The sender window engine against an arbitrary peer: execute_sliding_window *)
(* on drawn fragments, with any ACK / NACK arriving on the socket            *)

\* fragments [A, B, C, ...]
Letters(n) == [i \in 1..n |-> <<64 + i>>]

AckSeqs == 0..MaxFragments

WindowInit ==
    /\ \E protocol \in Protocols, w \in 0..MaxWindow, n \in 1..MaxFragments :
          /\ c_protocol = protocol
          /\ c_window_size = w
          /\ fragments = Letters(n)
          /\ c_message = Flatten(Letters(n))
    /\ c_pc = "fill"
    /\ c_sock = "open"
    /\ c_blocking = "nonblocking"
    /\ handshake_complete = TRUE
    /\ session_id = SessionIdOf(ClientAddr)
    /\ c_max_fragment_size = 1
    /\ c_channel = Normal
    /\ base_seq_num = 0
    /\ next_seq_num = 0
    /\ packet_buffer = <<>>
    /\ ack_received = {}
    /\ retry_count = 0
    /\ since_last_action = "within"
    /\ c_call = "send"
    /\ c_result = "none"
    /\ c_last = NoEvent
    /\ s_pc = "peer"
    /\ s_sock = "open"
    /\ client_sessions = <<>>
    /\ s_channel = Normal
    /\ s_delivered = <<>>
    /\ s_dropped = FALSE
    /\ NetEmpty
    /\ CodecIdle
    /\ NoSecond
    /\ ChannelIdle

\* the peer writes an ACK or a NACK of any sequence number
Peer_writes ==
    /\ s_pc = "peer"
    /\ Len(s2c) < MaxPending
    /\ \E t \in {ACK_TYPE, NACK_TYPE}, k \in AckSeqs :
          s2c' = Append(s2c, create_packet(t, AckText, k))
    /\ UNCHANGED <<clientVars, serverVars, c2s, codecVars, second, channelVars>>

\* the peer reads what the sender wrote
Peer_reads ==
    /\ s_pc = "peer"
    /\ c2s # <<>>
    /\ c2s' = <<>>
    /\ UNCHANGED <<clientVars, serverVars, s2c, codecVars, second, channelVars>>

WindowNext ==
    \/ Client_send_packets_in_window
    \/ Client_process_acks
    \/ Client_process_acks_done
    \/ Client_no_timeout
    \/ Client_handle_timeout
    \/ Peer_writes
    \/ Peer_reads

SpecWindow == WindowInit /\ [][WindowNext]_vars

-----------------------------------------------------------------------------
(* Codec harness: encode drawn inputs, optionally damage the bytes, decode *)

SeqValues == {0, 1, 255, 256, 65535}

CodecInit ==
    /\ CodecIdle
    /\ NoSecond
    /\ ChannelIdle
    /\ ClientConstructed("gbn", 3, 4)
    /\ ServerConstructed
    /\ NetEmpty

\* create_packet(type, payload, seq) on drawn inputs
Encode ==
    /\ pk_step = "start"
    /\ \E t \in PacketTypes, s \in SeqValues, p \in BytesUpTo(MaxPayloadLen) :
          /\ pk_in' = [type |-> t, sequence |-> s, payload |-> p]
          /\ pk_raw' = create_packet(t, p, s)
    /\ pk_step' = "encoded"
    /\ UNCHANGED <<pk_out, pk_legacy_out, clientVars, serverVars, netVars, second, channelVars>>

\* the stream delivers only the first n bytes of the packet
Truncate ==
    /\ pk_step = "encoded"
    /\ \E n \in 0..(Len(pk_raw) - 1) : pk_raw' = SubSeq(pk_raw, 1, n)
    /\ pk_step' = "tampered"
    /\ UNCHANGED <<pk_in, pk_out, pk_legacy_out, clientVars, serverVars, netVars, second, channelVars>>

\* one byte of the packet is changed in transit
FlipByte ==
    /\ pk_step = "encoded"
    /\ \E i \in 1..Len(pk_raw) :
          pk_raw' = [pk_raw EXCEPT ![i] = (pk_raw[i] + 1) % 256]
    /\ pk_step' = "tampered"
    /\ UNCHANGED <<pk_in, pk_out, pk_legacy_out, clientVars, serverVars, netVars, second, channelVars>>

Decode ==
    /\ pk_step \in {"encoded", "tampered"}
    /\ pk_out' = parse_packet(pk_raw)
    /\ pk_legacy_out' = legacy_parse_packet(pk_raw)
    /\ pk_step' = IF pk_step = "encoded" THEN "decoded" ELSE "decoded_tampered"
    /\ UNCHANGED <<pk_in, pk_raw, clientVars, serverVars, netVars, second, channelVars>>

CodecNext == Encode \/ Truncate \/ FlipByte \/ Decode

SpecCodec == CodecInit /\ [][CodecNext]_vars

-----------------------------------------------------------------------------
(* Properties of the codec (SpecCodec) *)

\* C4: framing round-trip: parse_packet(create_packet(type, p, seq)) succeeds and
\* returns exactly that type, that sequence number and payload p, with
\* length = len(p), for every packet type, sequence number in 0..65535 and payload.
FramingRoundTrip ==
    pk_step = "decoded" =>
        pk_out = Packet(pk_in.type, pk_in.sequence, pk_in.payload, Len(pk_in.payload))

\* a DISCONNECT packet with the largest sequence number and a two-byte payload
\* was encoded and decoded
FramingRoundTripWitness ==
    /\ pk_step = "decoded"
    /\ pk_in = [type |-> DISCONNECT_TYPE, sequence |-> 65535, payload |-> <<255, 0>>]
    /\ pk_out.res = "packet"

\* C5: decode failures are returned, never raised: parse_packet (the final one
\* and the first iteration's Server.parse_packet) returns no packet exactly when
\* fewer than 11 bytes are given, when the declared payload length exceeds the
\* bytes after the header, or when the checksum recomputed over the payload
\* differs from the transmitted one; in every other case it returns the packet.
DecodeFailuresReturned ==
    pk_step \in {"decoded", "decoded_tampered"} =>
        LET short == Len(pk_raw) < 11
            declared == UnpackBE(SubSeq(pk_raw, 1, 4))
            truncated == ~short /\ declared > Len(pk_raw) - 11
            mismatch == /\ ~short
                        /\ ~truncated
                        /\ calculate_checksum(SubSeq(pk_raw, 12, 11 + declared))
                              # SubSeq(pk_raw, 8, 11)
            fails == short \/ truncated \/ mismatch
        IN  \A out \in {pk_out, pk_legacy_out} :
                /\ out.res # "raised"
                /\ (out.res = "none") <=> fails

-----------------------------------------------------------------------------
(* Properties of the two endpoints over one connection (Spec) *)

\* C1: end-to-end delivery on a clean channel: after a handshake negotiating SR
\* with fragment size 3 and window 4, with no loss, corruption or delay on either
\* endpoint, send_message("HELLOWORLD") returns success, the server has received
\* and reassembled exactly that message in order, and the client's window has
\* fully drained (base_seq_num equals the fragment count, 4).
\* (c_last records that the message passed the client's channel simulator and
\* the window engine ran: the client's channel was clean during the call.)
CleanChannelDelivery ==
    ( /\ c_call = "send"
      /\ c_result # "none"
      /\ c_last.op # "none"
      /\ handshake_complete
      /\ c_protocol = "sr"
      /\ c_max_fragment_size = 3
      /\ c_window_size = 4
      /\ c_channel = Normal
      /\ s_channel = Normal
      /\ c_message = HelloWorld )
    => /\ c_result = "true"
       /\ Flatten(s_delivered) = HelloWorld
       /\ base_seq_num = 4

\* C2: reliable delivery (safety): send_message returns success only if every
\* fragment of that message was accepted by the server's session, in order; for
\* the first message and for every later one on the same connection.
SuccessOnlyIfAccepted ==
    (c_call = "send" /\ c_result = "true") =>
        \E skip \in 0..Len(s_delivered) :
            /\ skip + Len(fragments) <= Len(s_delivered)
            /\ SubSeq(s_delivered, skip + 1, skip + Len(fragments)) = fragments
            /\ Flatten(fragments) = c_message

\* C3: fragmentation: while send_message runs, the fragments are an ordered list
\* whose concatenation equals the message exactly; every fragment has length at
\* most the fragment size, only the last may be shorter, and fragment i is sent
\* with sequence number i, starting at 0.
FragmentsRebuildMessage ==
    (c_call = "send" /\ c_result = "none" /\ c_pc \in {"fill", "poll", "tick"}) =>
        /\ Flatten(fragments) = c_message
        /\ \A i \in 1..Len(fragments) :
              /\ Len(fragments[i]) <= c_max_fragment_size
              /\ i < Len(fragments) => Len(fragments[i]) = c_max_fragment_size
        /\ \A seq \in DOMAIN packet_buffer :
              /\ seq \in 0..(Len(fragments) - 1)
              /\ parse_packet(packet_buffer[seq]).sequence = seq
              /\ parse_packet(packet_buffer[seq]).payload = fragments[seq + 1]

-----------------------------------------------------------------------------
(* Properties of the sender window engine (SpecWindow) *)

\* C6: sender window invariant: in every state of a send_message execution,
\* after any interleaving of window fills, ACKs, NACKs and timeouts, for GBN and
\* for SR, base_seq_num <= next_seq_num <= base_seq_num + window_size.
SenderWindowInvariant ==
    (c_call = "send" /\ c_result = "none") =>
        /\ base_seq_num <= next_seq_num
        /\ next_seq_num <= base_seq_num + c_window_size

\* C7: retransmission buffer invariant: in every state of a send_message
\* execution the keys of packet_buffer are exactly the sequence numbers seq with
\* base_seq_num <= seq < next_seq_num that are not yet acknowledged (for SR: not
\* in ack_received).
PacketBufferInvariant ==
    (c_call = "send" /\ c_result = "none") =>
        DOMAIN packet_buffer =
            {seq \in base_seq_num..(next_seq_num - 1) :
                c_protocol = "sr" => seq \notin ack_received}

\* C8: GBN cumulative acknowledgment: when the GBN sender handles ACK(k) with
\* k >= base_seq_num, base_seq_num becomes exactly k + 1 and afterwards
\* packet_buffer holds no entry with sequence number < k + 1.
GbnCumulativeAck ==
    [][ LET ack == parse_packet(Head(s2c))
        IN  ( /\ c_pc = "poll"
              /\ c_protocol = "gbn"
              /\ Len(s2c') < Len(s2c)
              /\ ack.res = "packet"
              /\ ack.type = ACK_TYPE
              /\ ack.sequence >= base_seq_num )
            => /\ base_seq_num' = ack.sequence + 1
               /\ \A seq \in DOMAIN packet_buffer' : seq >= ack.sequence + 1 ]_vars

\* C9: GBN duplicate-ack idempotence: when the GBN sender handles ACK(k) with
\* k < base_seq_num, base_seq_num, next_seq_num and packet_buffer are left
\* unchanged and nothing is retransmitted.
GbnDuplicateAckIgnored ==
    [][ LET ack == parse_packet(Head(s2c))
        IN  ( /\ c_pc = "poll"
              /\ c_protocol = "gbn"
              /\ Len(s2c') < Len(s2c)
              /\ ack.res = "packet"
              /\ ack.type = ACK_TYPE
              /\ ack.sequence < base_seq_num )
            => UNCHANGED <<base_seq_num, next_seq_num, packet_buffer, c2s>> ]_vars

\* the GBN sender, its base at 1, has just handled ACK(0)
GbnDuplicateAckWitness ==
    /\ c_protocol = "gbn"
    /\ c_last = Event("ack", 0, 1)
    /\ base_seq_num = 1
    /\ 1 \in DOMAIN packet_buffer

\* C10: SR selective acknowledgment: when the SR sender handles ACK(seq), seq is
\* added to ack_received and base_seq_num advances exactly past the maximal
\* contiguous run of acknowledged sequence numbers starting at the old
\* base_seq_num, those buffer entries being removed; with fragments [A, B, C] and
\* window 2, ACK(1) before ACK(0) leaves base_seq_num at 0 and the following
\* ACK(0) moves it directly to 2.
SrSelectiveAck ==
    [][ LET ack == parse_packet(Head(s2c))
        IN  ( /\ c_pc = "poll"
              /\ c_protocol = "sr"
              /\ Len(s2c') < Len(s2c)
              /\ ack.res = "packet"
              /\ ack.type = ACK_TYPE )
            => /\ ack_received' = ack_received \cup {ack.sequence}
               /\ base_seq_num' >= base_seq_num
               /\ \A seq \in base_seq_num..(base_seq_num' - 1) : seq \in ack_received'
               /\ base_seq_num' \notin ack_received'
               /\ DOMAIN packet_buffer' =
                     (DOMAIN packet_buffer) \ (base_seq_num..(base_seq_num' - 1))
               /\ \A seq \in DOMAIN packet_buffer' :
                     packet_buffer'[seq] = packet_buffer[seq]
               /\ ( /\ fragments = Letters(3)
                    /\ c_window_size = 2
                    /\ base_seq_num = 0
                    /\ next_seq_num = 2 )
                  => /\ (ack.sequence = 1 /\ ack_received = {}) => base_seq_num' = 0
                     /\ (ack.sequence = 0 /\ ack_received = {1}) => base_seq_num' = 2 ]_vars

\* fragments [A, B, C], window 2: after ACK(1) and then ACK(0) the base is at 2
SrSelectiveAckWitness ==
    /\ c_protocol = "sr"
    /\ fragments = Letters(3)
    /\ c_window_size = 2
    /\ c_last = Event("ack", 0, 0)
    /\ ack_received = {0, 1}
    /\ base_seq_num = 2
    /\ next_seq_num = 2

-----------------------------------------------------------------------------
(* Retry bound and recovery of the sender (Spec) *)

\* a step in which send_message returns to its caller
SendMessageReturns ==
    /\ c_call' = "send"
    /\ c_result' # "none"
    /\ c_channel' = c_channel
    /\ clientVars' # clientVars
    /\ (c_pc \in {"new", "ready"} \/ c_result = "none")

\* C11: a send_message on an established connection whose channel loses
\* everything (loss probability 1.0 configured on the sender or on the
\* receiver) returns failure after exactly max_retries timeout-triggered
\* retransmission rounds: the timeouts 1..max_retries retransmit, the next one
\* finds retry_count = max_retries + 1 and aborts.
RetryBound ==
    [][ ( /\ SendMessageReturns
          /\ handshake_complete
          /\ (c_channel.loss = "one" \/ s_channel.loss = "one") )
        => ( /\ c_result' = "false"
             /\ retry_count' = max_retries + 1 ) ]_vars

\* the same with the loss configured on the receiver only, the sender's own
\* channel simulator left at its defaults
RetryBoundReceiverLoss ==
    [][ ( /\ SendMessageReturns
          /\ handshake_complete
          /\ c_channel = Normal
          /\ s_channel.loss = "one" )
        => ( /\ c_result' = "false"
             /\ retry_count' = max_retries + 1 ) ]_vars

\* a send_message has returned failure because retry_count exceeded max_retries
RetriesExhausted ==
    /\ c_pc = "ready"
    /\ c_call = "send"
    /\ c_result = "false"
    /\ retry_count > max_retries

\* the server's end of the connection is open and the peer's session is
\* registered with its handshake complete
SessionValid ==
    /\ s_sock = "open"
    /\ s_pc = "messages"
    /\ ClientAddr \in DOMAIN client_sessions
    /\ client_sessions[ClientAddr].handshake_complete

\* when the receiver loses everything, the session outlives the failed send
SessionSurvivesTotalLoss ==
    (RetriesExhausted /\ s_channel.loss = "one" /\ c_sock = "open") => SessionValid

\* The connection right after a send_message that failed by retry exhaustion
\* (every packet was lost or corrupted at the receiver; the NACK of the last
\* retransmission may still be unread), when set_channel_conditions has put
\* both endpoints back to a loss-free channel.
RecoveryInit ==
    /\ \E protocol \in Protocols, f \in FragSizes, w \in WindowSizes \ {0},
          message \in Messages :
          LET negotiated == Min(f, SERVER_MAX_FRAGMENT_SIZE)
          IN  /\ c_protocol = protocol
              /\ c_max_fragment_size = negotiated
              /\ c_window_size = w
              /\ c_message = message
              /\ fragments = fragment_message(message, negotiated)
              /\ client_sessions =
                    (ClientAddr :>
                       [NewSession(protocol, negotiated, w, SessionIdOf(ClientAddr))
                          EXCEPT !.handshake_complete = TRUE])
    /\ c_pc = "ready"
    /\ c_sock = "open"
    /\ c_blocking = "blocking"
    /\ handshake_complete = TRUE
    /\ session_id = SessionIdOf(ClientAddr)
    /\ c_channel = Normal
    /\ base_seq_num = 0
    /\ next_seq_num = 1
    /\ packet_buffer = <<>>
    /\ ack_received = {}
    /\ retry_count = max_retries + 1
    /\ since_last_action = "within"
    /\ c_call = "send"
    /\ c_result = "false"
    /\ c_last = Event("timeout", 0, 0)
    /\ s_pc = "messages"
    /\ s_sock = "open"
    /\ s_channel = Normal
    /\ s_delivered = <<>>
    /\ s_dropped = FALSE
    /\ c2s = <<>>
    /\ s2c \in {<<>>, <<create_packet(NACK_TYPE, NackText, 0)>>}
    /\ CodecIdle
    /\ NoSecond
    /\ ChannelIdle

RecoveryNext ==
    \/ Client_send_message
    \/ Client_send_packets_in_window
    \/ Client_process_acks
    \/ Client_process_acks_done
    \/ Client_no_timeout
    \/ Client_handle_timeout
    \/ Server_handle_client_messages

SpecRecovery == RecoveryInit /\ [][RecoveryNext]_vars

\* C12: a delivery failure is fatal to the current message only: every
\* send_message that returns on the same connection after one that failed by
\* retry exhaustion, the channel being loss-free, returns success with all its
\* fragments accepted by the server, the session still registered and the
\* connection open.
FailureFatalToMessageOnly ==
    [][ SendMessageReturns
        => ( /\ c_result' = "true"
             /\ Flatten(fragments') = c_message'
             /\ Len(s_delivered') >= Len(fragments')
             /\ SubSeq(s_delivered', Len(s_delivered') - Len(fragments') + 1,
                       Len(s_delivered')) = fragments'
             /\ SessionValid' ) ]_vars

-----------------------------------------------------------------------------
(* The handshake with any peer: the Client against this Server or against   *)
(* whatever answers on the port, the Server against this Client or against  *)
(* whatever connects to it                                                   *)

\* the protocols a Client can be constructed with: the constructor takes any string
ProposedProtocols == Protocols \cup {"other"}

\* what a peer that is neither this Client nor this Server writes
HandshakeWire ==
    LET sid == SessionIdOf(ClientAddr)
        syn == create_packet(SYN_TYPE, SynJson("gbn", SERVER_MAX_FRAGMENT_SIZE + 1, 1), 0)
    IN  { syn,
          create_packet(SYN_TYPE, SynJson("other", 1, 1), 0),
          create_packet(HANDSHAKE_ACK_TYPE, HandshakeAckJson(sid), 0),
          create_packet(DATA_TYPE, <<72>>, 0),
          create_packet(ACK_TYPE, SynAckJson(1, "sr", 1, 1, sid), 0),
          create_packet(ACK_TYPE, SynAckJson(0, "sr", 1, 1, sid), 0),
          create_packet(DATA_TYPE, SynAckJson(1, "sr", 1, 1, sid), 0),
          \* fewer bytes than a header
          SubSeq(syn, 1, 5),
          \* a checksum that does not match the payload
          [syn EXCEPT ![8] = (syn[8] + 1) % 256] }

HandshakeInit ==
    /\ \E protocol \in ProposedProtocols, f \in FragSizes, w \in WindowSizes :
          ClientConstructed(protocol, f, w)
    /\ ServerConstructed
    /\ NetEmpty
    /\ CodecIdle
    /\ NoSecond
    /\ ChannelIdle

\* server_socket.accept() returns a connection opened by another program
Foreign_client_connects ==
    /\ c_pc = "new"
    /\ s_pc = "accept"
    /\ s_sock = "none"
    /\ c_pc' = "foreign"
    /\ c_sock' = "open"
    /\ s_sock' = "open"
    /\ s_pc' = "hs_syn"
    /\ UNCHANGED <<c_blocking, sessionVars, c_channel, windowVars, c_message, fragments,
                   c_call, c_result, c_last, client_sessions, s_channel, s_delivered, s_dropped,
                   netVars, codecVars, second, channelVars>>

\* that program writes to the connection
Foreign_client_writes ==
    /\ c_pc = "foreign"
    /\ s_sock = "open"
    /\ RoomToWrite
    /\ \E packet \in HandshakeWire : c2s' = Append(c2s, packet)
    /\ UNCHANGED <<clientVars, serverVars, s2c, codecVars, second, channelVars>>

\* the Client's SYN is answered by another program listening on the port
Foreign_server_replies ==
    /\ c_pc = "syn_sent"
    /\ s_pc = "hs_syn"
    /\ c2s # <<>>
    /\ c2s' = <<>>
    /\ s_pc' = "peer"
    /\ \E packet \in HandshakeWire : s2c' = Append(s2c, packet)
    /\ UNCHANGED <<clientVars, s_sock, client_sessions, s_channel, s_delivered, s_dropped, codecVars, second, channelVars>>

HandshakeNext ==
    \/ Client_connect
    \/ Client_connect_syn_ack
    \/ Server_process_handshake_syn
    \/ Server_process_handshake_ack
    \/ Server_handle_client_messages
    \/ Foreign_client_connects
    \/ Foreign_client_writes
    \/ Foreign_server_replies

SpecHandshake == HandshakeInit /\ [][HandshakeNext]_vars

-----------------------------------------------------------------------------
(* Properties of the handshake (SpecHandshake) *)

\* the server reads from the connection: the packet it parses is the first unread one
ServerReads == c2s # <<>> /\ Len(c2s') < Len(c2s) /\ s_pc' # "peer"

\* the client reads from the connection
ClientReads == s2c # <<>> /\ Len(s2c') < Len(s2c)

\* C13: protocol validation in the handshake: a SYN that proposes a protocol
\* other than gbn and sr is answered by a SYN_ACK with status=error, the
\* client's connect returns failure and no handshake-complete session exists
\* for the peer; a supported protocol is answered with status=ok.
ProtocolValidation ==
    /\ \* the SYN_ACK of handle_syn, while unread
       (s_pc = "hs_ack" /\ s2c # <<>>) =>
            LET syn_ack == parse_packet(s2c[Len(s2c)]).payload
            IN  (syn_ack[1] = 1) <=> (ByteProtocol(syn_ack[2]) \in Protocols)
    /\ (c_pc = "ready" /\ c_call = "connect" /\ c_protocol \notin Protocols) =>
            /\ c_result = "false"
            /\ ~handshake_complete
            /\ \A a \in DOMAIN client_sessions : ~client_sessions[a].handshake_complete

\* C14: fragment-size clamping: for every requested fragment size r and the
\* server's ceiling s, the fragment size that handle_syn stores in the session
\* and returns in the SYN_ACK is r when r <= s and s otherwise; it never
\* exceeds the ceiling.
FragmentSizeClamped ==
    [][ LET syn == parse_packet(Head(c2s))
            r == syn.payload[2]
            stored == client_sessions'[ClientAddr].max_fragment_size
            syn_ack == parse_packet(s2c'[Len(s2c')]).payload
        IN  ( /\ s_pc = "hs_syn"
              /\ ServerReads
              /\ s_pc' = "hs_ack" )
            => ( /\ stored = (IF r <= SERVER_MAX_FRAGMENT_SIZE
                              THEN r ELSE SERVER_MAX_FRAGMENT_SIZE)
                 /\ stored <= SERVER_MAX_FRAGMENT_SIZE
                 /\ syn_ack[3] = stored ) ]_vars

\* a request above the ceiling was answered with the ceiling
FragmentSizeClampedWitness ==
    /\ s_pc = "hs_ack"
    /\ c_pc = "syn_sent"
    /\ c_max_fragment_size = SERVER_MAX_FRAGMENT_SIZE + 1
    /\ client_sessions[ClientAddr].max_fragment_size = SERVER_MAX_FRAGMENT_SIZE
    /\ s2c # <<>>
    /\ parse_packet(Head(s2c)).payload[3] = SERVER_MAX_FRAGMENT_SIZE

\* C15: parameter agreement: whenever the client's connect has returned success
\* against this server, the client's protocol, fragment size, window size and
\* session_id equal the values stored in the server's session for that peer
\* (the values the server confirmed, not the client's proposal).
ParameterAgreement ==
    ( /\ c_call = "connect"
      /\ c_result = "true"
      /\ s_pc # "peer" )
    => /\ ClientAddr \in DOMAIN client_sessions
       /\ LET session == client_sessions[ClientAddr]
          IN  /\ c_protocol = session.protocol
              /\ c_max_fragment_size = session.max_fragment_size
              /\ c_window_size = session.window_size
              /\ session_id = session.session_id

\* connect returned success and the client holds the clamped fragment size
ParameterAgreementWitness ==
    /\ c_call = "connect"
    /\ c_result = "true"
    /\ s_pc = "messages"
    /\ c_max_fragment_size = SERVER_MAX_FRAGMENT_SIZE
    /\ c_window_size = DEFAULT_WINDOW_SIZE
    /\ client_sessions[ClientAddr].max_fragment_size = SERVER_MAX_FRAGMENT_SIZE
    /\ client_sessions[ClientAddr].handshake_complete

\* Server.handle_message of src/server.py and message of src/server_m.py: the
\* test of handshake_complete before anything else, then the acknowledgement
legacy_handle_message(sessions, addr) ==
    IF ~(addr \in DOMAIN sessions /\ sessions[addr].handshake_complete)
    THEN [ack |-> <<>>, sessions |-> sessions]
    ELSE [ack |-> <<create_packet(2, AckText, 0)>>, sessions |-> sessions]

ServerHandshakeFailureStep ==
    LET read == parse_packet(Head(c2s))
        expected == IF s_pc = "hs_syn" THEN SYN_TYPE ELSE HANDSHAKE_ACK_TYPE
    IN  ( /\ s_pc \in {"hs_syn", "hs_ack"}
          /\ ServerReads
          /\ (read.res # "packet" \/ read.type # expected) )
        => ( /\ s_sock' = "closed"
             /\ s_pc' = "accept"
             /\ \A a \in DOMAIN client_sessions' :
                    ~client_sessions'[a].handshake_complete )

ServerHandshakeFailureAborts == [][ServerHandshakeFailureStep]_vars

\* C17: handshake failure aborts the connection: when the message an endpoint
\* receives at a handshake step is malformed or not of the expected type (the
\* server expects SYN, then HANDSHAKE_ACK; the client expects the SYN_ACK, which
\* the server sends with type ACK), that endpoint's handshake fails, its
\* handshake_complete stays false and its transport connection is closed.
HandshakeFailureAborts ==
    [][ /\ ServerHandshakeFailureStep
        /\ LET read == parse_packet(Head(s2c))
           IN  ( /\ c_pc = "syn_sent"
                 /\ ClientReads
                 /\ (read.res # "packet" \/ read.type # ACK_TYPE) )
               => ( /\ c_result' = "false"
                    /\ ~handshake_complete'
                    /\ c_sock' = "closed" ) ]_vars

-----------------------------------------------------------------------------
(* Properties of the server's message loop (Spec) *)

\* C18: receiver dispatch: when the message loop reads a well-formed DATA
\* packet for a session with completed handshake and the channel simulator
\* passes it unchanged (default channel conditions), the packet is handled by
\* the session's discipline, one ACK is written back to the peer, and the
\* session stays registered with the connection open.
ReceiverDispatch ==
    [][ LET read == parse_packet(Head(c2s))
        IN  ( /\ s_pc = "messages"
              /\ ServerReads
              /\ SessionValid
              /\ s_channel = Normal
              /\ read.res = "packet"
              /\ read.type = DATA_TYPE )
            => ( /\ SessionValid'
                 /\ Len(s2c') = Len(s2c) + 1
                 /\ parse_packet(s2c'[Len(s2c')]).type = ACK_TYPE ) ]_vars

-----------------------------------------------------------------------------
(* The receiver session engine: the discipline handlers called on a session  *)
(* with completed handshake, for DATA packets of any sequence number          *)

MaxSeqNum == 3

\* the payloads of the DATA packets: "H" and a byte that is not UTF-8
EnginePayloads == {<<72>>, <<255>>}

\* struct.pack's 'H' takes 0..65535 and raises struct.error outside
PacksAsUnsignedShort(n) == n \in 0..65535

\* handle_gbn_message acknowledging the next expected sequence number and
\* leaving last_ack_sent alone
handle_gbn_message_acks_next(session, data_bytes, sequence_num) ==
    LET expected_seq == session.expected_seq_num
    IN  IF sequence_num # expected_seq
        THEN [res |-> "false", session |-> session,
              sent |-> <<create_packet(ACK_TYPE, AckText, expected_seq)>>]
        ELSE [res |-> "true",
              session |-> [session EXCEPT !.expected_seq_num = expected_seq + 1],
              sent |-> <<create_packet(ACK_TYPE, AckText, expected_seq + 1)>>]

\* Server.handle_gbn_message: what it returns (or that it raised), the session
\* after it and the packets it sent.  The try body and the UnicodeDecodeError
\* handler run the same statements, so the payload's encoding makes no
\* difference; a struct.error of create_packet is not caught by either.
handle_gbn_message(session, data_bytes, sequence_num) ==
    LET expected_seq == session.expected_seq_num
        last_ack == session.last_ack_sent
    IN  IF sequence_num # expected_seq
        THEN IF PacksAsUnsignedShort(last_ack)
             THEN [res |-> "false", session |-> session,
                   sent |-> <<create_packet(ACK_TYPE, AckText, last_ack)>>]
             ELSE [res |-> "raised", session |-> session, sent |-> <<>>]
        ELSE [res |-> "true",
              session |-> [session EXCEPT !.expected_seq_num = expected_seq + 1,
                                          !.last_ack_sent = expected_seq],
              sent |-> <<create_packet(ACK_TYPE, AckText, sequence_num)>>]

\* process_sr_buffer: while expected_seq in buffer: del buffer[expected_seq];
\* expected_seq += 1.  The payloads removed are the ones delivered, in order.
RECURSIVE process_sr_buffer(_, _)
process_sr_buffer(expected_seq, buffer) ==
    IF expected_seq \in DOMAIN buffer
    THEN LET rest == process_sr_buffer(expected_seq + 1, Without(buffer, {expected_seq}))
         IN  [expected_seq_num |-> rest.expected_seq_num,
              received_buffer |-> rest.received_buffer,
              delivered |-> <<buffer[expected_seq]>> \o rest.delivered]
    ELSE [expected_seq_num |-> expected_seq, received_buffer |-> buffer,
          delivered |-> <<>>]

\* a process_sr_buffer that takes at most one packet out of the buffer
process_sr_buffer_once(expected_seq, buffer) ==
    IF expected_seq \in DOMAIN buffer
    THEN [expected_seq_num |-> expected_seq + 1,
          received_buffer |-> Without(buffer, {expected_seq}),
          delivered |-> <<buffer[expected_seq]>>]
    ELSE [expected_seq_num |-> expected_seq, received_buffer |-> buffer,
          delivered |-> <<>>]

\* handle_sr_message with process_sr_buffer_once in the place of process_sr_buffer
handle_sr_message_once(session, data_bytes, sequence_num) ==
    LET buffer == [s \in (DOMAIN session.received_buffer) \cup {sequence_num} |->
                      IF s = sequence_num THEN data_bytes
                      ELSE session.received_buffer[s]]
        processed == process_sr_buffer_once(session.expected_seq_num, buffer)
    IN  [res |-> "true",
         session |-> [session EXCEPT !.expected_seq_num = processed.expected_seq_num,
                                     !.received_buffer = processed.received_buffer],
         sent |-> <<create_packet(ACK_TYPE, AckText, sequence_num)>>,
         delivered |-> processed.delivered]

\* Server.handle_sr_message: buffer[sequence_num] = data_bytes, one ACK for
\* sequence_num, process_sr_buffer.  The try body and the UnicodeDecodeError
\* handler run the same statements.
handle_sr_message(session, data_bytes, sequence_num) ==
    LET buffer == [s \in (DOMAIN session.received_buffer) \cup {sequence_num} |->
                      IF s = sequence_num THEN data_bytes
                      ELSE session.received_buffer[s]]
        processed == process_sr_buffer(session.expected_seq_num, buffer)
    IN  [res |-> "true",
         session |-> [session EXCEPT !.expected_seq_num = processed.expected_seq_num,
                                     !.received_buffer = processed.received_buffer],
         sent |-> <<create_packet(ACK_TYPE, AckText, sequence_num)>>,
         delivered |-> processed.delivered]

ReceiverInit ==
    /\ \E protocol \in Protocols, w \in WindowSizes \ {0} :
          /\ ClientConstructed(protocol, SERVER_MAX_FRAGMENT_SIZE, w)
          /\ client_sessions =
                (ClientAddr :>
                   [NewSession(protocol, SERVER_MAX_FRAGMENT_SIZE, w,
                               SessionIdOf(ClientAddr))
                      EXCEPT !.handshake_complete = TRUE])
    /\ s_pc = "engine"
    /\ s_sock = "open"
    /\ s_channel = Normal
    /\ s_delivered = <<>>
    /\ s_dropped = FALSE
    /\ NetEmpty
    /\ CodecIdle
    /\ NoSecond
    /\ ChannelIdle

\* the sending peer writes a DATA packet of any sequence number
Sender_writes_data ==
    /\ RoomToWrite
    /\ Len(s2c) <= MaxPending
    /\ \E seq \in 0..MaxSeqNum, payload \in EnginePayloads :
          c2s' = Append(c2s, create_packet(DATA_TYPE, payload, seq))
    /\ UNCHANGED <<clientVars, serverVars, s2c, codecVars, second, channelVars>>

\* the sending peer reads the acknowledgements
Sender_reads_acks ==
    /\ s2c # <<>>
    /\ s2c' = <<>>
    /\ UNCHANGED <<clientVars, serverVars, c2s, codecVars, second, channelVars>>

\* handle_gbn_message(client_socket, client_address, payload, sequence_num) on
\* the next DATA packet of a GBN session; s_pc keeps whether the call raised
Server_handle_gbn_message ==
    /\ s_pc \in {"engine", "engine_raised"}
    /\ c2s # <<>>
    /\ client_sessions[ClientAddr].protocol = "gbn"
    /\ LET parsed == parse_packet(Head(c2s))
           r == handle_gbn_message(client_sessions[ClientAddr], parsed.payload,
                                   parsed.sequence)
       IN  /\ client_sessions' = [client_sessions EXCEPT ![ClientAddr] = r.session]
           /\ s2c' = s2c \o r.sent
           /\ s_delivered' = IF r.res = "true" THEN Append(s_delivered, parsed.payload)
                             ELSE s_delivered
           /\ s_pc' = IF r.res = "raised" THEN "engine_raised" ELSE "engine"
    /\ c2s' = Tail(c2s)
    /\ UNCHANGED <<clientVars, s_sock, s_channel, s_dropped, codecVars, second, channelVars>>

\* handle_sr_message(client_socket, client_address, payload, sequence_num) on
\* the next DATA packet of an SR session
Server_handle_sr_message ==
    /\ s_pc \in {"engine", "engine_raised"}
    /\ c2s # <<>>
    /\ client_sessions[ClientAddr].protocol = "sr"
    /\ LET parsed == parse_packet(Head(c2s))
           r == handle_sr_message(client_sessions[ClientAddr], parsed.payload,
                                  parsed.sequence)
       IN  /\ client_sessions' = [client_sessions EXCEPT ![ClientAddr] = r.session]
           /\ s2c' = s2c \o r.sent
           /\ s_delivered' = s_delivered \o r.delivered
           /\ s_pc' = "engine"
    /\ c2s' = Tail(c2s)
    /\ UNCHANGED <<clientVars, s_sock, s_channel, s_dropped, codecVars, second, channelVars>>

ReceiverNext ==
    \/ Sender_writes_data
    \/ Sender_reads_acks
    \/ Server_handle_gbn_message
    \/ Server_handle_sr_message

SpecReceiver == ReceiverInit /\ [][ReceiverNext]_vars

-----------------------------------------------------------------------------
(* Properties of the receiver session engine (SpecReceiver) *)

\* C19: GBN receiver, in-order case: when handle_gbn_message receives a packet
\* whose sequence equals expected_seq_num, it accepts it, sets last_ack_sent to
\* that sequence, increments expected_seq_num by exactly one and sends exactly
\* one ACK carrying that sequence.
GbnReceiverInOrder ==
    [][ LET read == parse_packet(Head(c2s))
            session == client_sessions[ClientAddr]
        IN  ( /\ s_pc \in {"engine", "engine_raised"}
              /\ ServerReads
              /\ session.protocol = "gbn"
              /\ read.sequence = session.expected_seq_num )
            => ( /\ s_pc' = "engine"
                 /\ s_delivered' = Append(s_delivered, read.payload)
                 /\ client_sessions'[ClientAddr] =
                       [session EXCEPT !.expected_seq_num = session.expected_seq_num + 1,
                                       !.last_ack_sent = read.sequence]
                 /\ Len(s2c') = Len(s2c) + 1
                 /\ SubSeq(s2c', 1, Len(s2c)) = s2c
                 /\ parse_packet(s2c'[Len(s2c')]).type = ACK_TYPE
                 /\ parse_packet(s2c'[Len(s2c')]).sequence = read.sequence ) ]_vars

\* the packets 0 and 1 were accepted in order; ACK(1) is on its way
GbnReceiverInOrderWitness ==
    /\ s_pc = "engine"
    /\ Len(s_delivered) = 2
    /\ client_sessions[ClientAddr].expected_seq_num = 2
    /\ client_sessions[ClientAddr].last_ack_sent = 1
    /\ s2c # <<>>
    /\ parse_packet(s2c[Len(s2c)]).type = ACK_TYPE
    /\ parse_packet(s2c[Len(s2c)]).sequence = 1

\* the gap case on a session that has accepted at least one packet
GbnReceiverGapStep ==
    LET read == parse_packet(Head(c2s))
        session == client_sessions[ClientAddr]
    IN  ( /\ s_pc \in {"engine", "engine_raised"}
          /\ ServerReads
          /\ session.protocol = "gbn"
          /\ read.sequence # session.expected_seq_num )
        => ( /\ s_pc' = "engine"
             /\ s_delivered' = s_delivered
             /\ client_sessions' = client_sessions
             /\ Len(s2c') = Len(s2c) + 1
             /\ SubSeq(s2c', 1, Len(s2c)) = s2c
             /\ parse_packet(s2c'[Len(s2c')]).type = ACK_TYPE
             /\ parse_packet(s2c'[Len(s2c')]).sequence = session.last_ack_sent )

GbnReceiverGapAfterFirstAccept ==
    [][ client_sessions[ClientAddr].expected_seq_num > 0 => GbnReceiverGapStep ]_vars

\* C20: GBN receiver, gap case: for every session state, a fresh session that
\* has accepted nothing included, and every packet whose sequence differs from
\* expected_seq_num, handle_gbn_message discards the payload, leaves
\* expected_seq_num and last_ack_sent unchanged and sends one duplicate ACK
\* carrying last_ack_sent, without raising an error.
GbnReceiverGap == [][GbnReceiverGapStep]_vars

\* C21: SR receive window bound: in every reachable state of an SR session,
\* every key of received_buffer lies in
\* [expected_seq_num, expected_seq_num + window_size): a DATA packet whose
\* sequence is outside that window is not stored.
SrReceiveWindowBound ==
    LET session == client_sessions[ClientAddr]
    IN  (s_pc \in {"engine", "engine_raised"} /\ session.protocol = "sr") =>
            \A seq \in DOMAIN session.received_buffer :
                /\ session.expected_seq_num <= seq
                /\ seq < session.expected_seq_num + session.window_size

\* C22: SR in-order delivery: for any arrival order of DATA packets, duplicates
\* included, a call of handle_sr_message sends ACK(seq) for the sequence
\* received; it delivers the buffered fragments expected_seq_num,
\* expected_seq_num + 1, ... up to the first missing one, in that order, so
\* fragments are delivered in increasing sequence order with no gap and each
\* sequence number once (the number delivered so far is expected_seq_num); and
\* afterwards expected_seq_num is not a key of received_buffer.
SrInOrderDelivery ==
    [][ LET read == parse_packet(Head(c2s))
            session == client_sessions[ClientAddr]
            after == client_sessions'[ClientAddr]
            stored == [s \in (DOMAIN session.received_buffer) \cup {read.sequence} |->
                          IF s = read.sequence THEN read.payload
                          ELSE session.received_buffer[s]]
            n == after.expected_seq_num - session.expected_seq_num
        IN  ( /\ s_pc \in {"engine", "engine_raised"}
              /\ ServerReads
              /\ session.protocol = "sr" )
            => ( /\ s2c' = Append(s2c, create_packet(ACK_TYPE, AckText, read.sequence))
                 /\ n >= 0
                 /\ \A i \in 0..(n - 1) : session.expected_seq_num + i \in DOMAIN stored
                 /\ s_delivered' = s_delivered \o
                        [i \in 1..n |-> stored[session.expected_seq_num + i - 1]]
                 /\ Len(s_delivered) = session.expected_seq_num
                 /\ Len(s_delivered') = after.expected_seq_num
                 /\ after.expected_seq_num \notin DOMAIN after.received_buffer ) ]_vars

\* packets 1 and 2 were buffered ahead of packet 0, whose arrival delivered all three
SrInOrderDeliveryWitness ==
    /\ s_pc = "engine"
    /\ client_sessions[ClientAddr].protocol = "sr"
    /\ client_sessions[ClientAddr].expected_seq_num = 3
    /\ Len(s_delivered) = 3
    /\ s2c # <<>>
    /\ parse_packet(s2c[Len(s2c)]).type = ACK_TYPE
    /\ parse_packet(s2c[Len(s2c)]).sequence = 0

-----------------------------------------------------------------------------
(* The server's message loop on an established session, for whatever a peer *)
(* writes to the connection, under every channel condition of the server     *)

\* a packet with its first checksum byte changed
DamagedChecksum(packet) == [packet EXCEPT ![8] = (packet[8] + 1) % 256]

\* a packet with its last byte (header or payload) changed
DamagedLastByte(packet) ==
    [packet EXCEPT ![Len(packet)] = (packet[Len(packet)] + 1) % 256]

\* what the peer writes: well-formed packets, packets damaged on the wire, a
\* header cut short and a header whose payload does not follow
MessageWire ==
    LET data == create_packet(DATA_TYPE, <<72>>, 0)
        disconnect == create_packet(DISCONNECT_TYPE, DisconnectText, 0)
    IN  { data, disconnect,
          create_packet(DATA_TYPE, <<>>, 1),
          create_packet(ACK_TYPE, AckText, 0),
          DamagedChecksum(data), DamagedLastByte(data),
          DamagedChecksum(disconnect), DamagedLastByte(disconnect),
          Slice(data, 0, HEADER_SIZE - 1), Slice(data, 0, HEADER_SIZE) }

MessagesInit ==
    /\ \E protocol \in Protocols :
          /\ ClientConstructed(protocol, SERVER_MAX_FRAGMENT_SIZE, DEFAULT_WINDOW_SIZE)
          /\ client_sessions =
                (ClientAddr :>
                   [NewSession(protocol, SERVER_MAX_FRAGMENT_SIZE, DEFAULT_WINDOW_SIZE,
                               SessionIdOf(ClientAddr))
                      EXCEPT !.handshake_complete = TRUE])
    /\ s_pc = "messages"
    /\ s_sock = "open"
    /\ s_channel \in ServerChannels
    /\ s_delivered = <<>>
    /\ s_dropped = FALSE
    /\ NetEmpty
    /\ CodecIdle
    /\ NoSecond
    /\ ChannelIdle

\* the peer writes a packet to the established connection
Peer_writes_message ==
    /\ s_sock = "open"
    /\ Len(c2s) <= MaxPending
    /\ Len(s2c) <= MaxPending
    /\ \E packet \in MessageWire : c2s' = Append(c2s, packet)
    /\ UNCHANGED <<clientVars, serverVars, s2c, codecVars, second, channelVars>>

MessagesNext ==
    \/ Peer_writes_message
    \/ Sender_reads_acks
    \/ Server_handle_client_messages

SpecMessages == MessagesInit /\ [][MessagesNext]_vars

\* the checksum field of the packet does not match its payload
ChecksumFails(packet) ==
    /\ Len(packet) >= HEADER_SIZE
    /\ calculate_checksum(Slice(packet, HEADER_SIZE, Len(packet))) # SubSeq(packet, 8, 11)

\* C23: a packet that fails checksum verification, on the wire or after the
\* channel simulator corrupted its payload (corruption probability 1.0, no
\* loss), is never delivered to the session: the step that reads it changes
\* no session's expected_seq_num or received_buffer, delivers nothing and
\* writes no ACK.
CorruptedNeverDelivered ==
    [][ ( /\ s_pc = "messages"
          /\ ServerReads
          /\ \/ ChecksumFails(Head(c2s))
             \/ (s_channel.loss = "zero" /\ s_channel.corruption = "one") )
        => ( /\ s_delivered' = s_delivered
             /\ \A a \in DOMAIN client_sessions' :
                   /\ client_sessions'[a].expected_seq_num =
                         client_sessions[a].expected_seq_num
                   /\ client_sessions'[a].received_buffer =
                         client_sessions[a].received_buffer
             /\ \A i \in (Len(s2c) + 1)..Len(s2c') :
                   parse_packet(s2c'[i]).type # ACK_TYPE
             /\ ChecksumFails(Head(c2s)) =>
                   UNCHANGED <<client_sessions, s2c, s_sock>> ) ]_vars

\* a DATA packet was corrupted by the channel simulator and answered with a NACK
CorruptedNeverDeliveredWitness ==
    /\ s_pc = "messages"
    /\ s_channel.corruption = "one"
    /\ s2c # <<>>
    /\ parse_packet(s2c[Len(s2c)]).type = NACK_TYPE
    /\ ClientAddr \in DOMAIN client_sessions
    /\ client_sessions[ClientAddr].expected_seq_num = 0
    /\ s_delivered = <<>>

-----------------------------------------------------------------------------
(* Disconnection (Spec) *)

\* C24: server-side disconnect: when the message loop processes a DISCONNECT
\* packet for a peer with a registered session (the channel simulator passing
\* it), the server sends an acknowledgment, removes the session from the
\* registry in the same step and closes the connection; from then on it
\* processes nothing the peer sends on that connection.
ServerDisconnect ==
    [][ LET read == parse_packet(Head(c2s))
        IN  /\ ( /\ s_pc = "messages"
                 /\ ServerReads
                 /\ SessionValid
                 /\ s_channel = Normal
                 /\ read.res = "packet"
                 /\ read.type = DISCONNECT_TYPE )
                => ( /\ s2c' = Append(s2c, create_packet(ACK_TYPE, AckText, 0))
                     /\ ClientAddr \notin DOMAIN client_sessions'
                     /\ s_sock' = "closed"
                     /\ c2s' = <<>> )
            /\ s_sock = "closed"
                => ( /\ UNCHANGED serverVars
                     /\ c2s' = <<>>
                     /\ Len(s2c') <= Len(s2c) ) ]_vars

\* the DISCONNECT was processed: acknowledgment on its way, session gone
ServerDisconnectWitness ==
    /\ c_call = "disconnect"
    /\ c_pc = "disc_wait"
    /\ s_sock = "closed"
    /\ ClientAddr \notin DOMAIN client_sessions
    /\ s2c = <<create_packet(ACK_TYPE, AckText, 0)>>

\* C25: client-side disconnect with bounded wait: once Client.disconnect has
\* sent DISCONNECT, it returns with the client closed (socket closed,
\* handshake_complete false), whether the server's acknowledgment arrived or
\* the wait of 2 seconds expired without one.
ClientDisconnectCloses ==
    [][ (c_pc = "disc_wait" /\ c_pc' = "ready")
        => ( /\ c_result' = "returned"
             /\ c_sock' = "closed"
             /\ ~handshake_complete' ) ]_vars

\* the acknowledged half of the claim: data arrived within the wait
ClientDisconnectAcknowledgedCloses ==
    [][ (c_pc = "disc_wait" /\ c_pc' = "ready" /\ ClientReads)
        => ( /\ c_result' = "returned"
             /\ c_sock' = "closed"
             /\ ~handshake_complete' ) ]_vars

-----------------------------------------------------------------------------
(* Server.start with two clients: the accept loop runs process_handshake   *)
(* and handle_client_messages of an accepted connection inline, and        *)
(* returns to accept() when that connection has ended.  A connection made  *)
(* meanwhile is completed by the listening socket (listen(5)) and waits in *)
(* its queue with whatever its client has written.                         *)

SecondAddr == "127.0.0.1:50001"

\* the second client's connect() up to its blocking recv: the TCP connection
\* is queued by the listening socket, the SYN is written to it
Second_connect ==
    /\ second.pc = "new"
    /\ \E protocol \in Protocols :
          second' = [pc |-> "syn_sent",
                     c2s |-> <<create_packet(SYN_TYPE,
                                 SynJson(protocol, SERVER_MAX_FRAGMENT_SIZE,
                                         DEFAULT_WINDOW_SIZE), 0)>>,
                     s2c |-> <<>>]
    /\ UNCHANGED <<clientVars, serverVars, netVars, codecVars, channelVars>>

\* the second client's connect() from the recv of the SYN-ACK to its return
Second_connect_syn_ack ==
    /\ second.pc = "syn_sent"
    /\ second.s2c # <<>>
    /\ \E parsed \in {parse_packet(Head(second.s2c))} :
          second' =
             IF /\ parsed.res = "packet"
                /\ Len(parsed.payload) = 5
                /\ parsed.payload[1] = 1
             THEN [pc |-> "ready",
                   c2s |-> Append(second.c2s,
                              create_packet(HANDSHAKE_ACK_TYPE,
                                            HandshakeAckJson(parsed.payload[5]), 0)),
                   s2c |-> Tail(second.s2c)]
             ELSE [second EXCEPT !.pc = "failed", !.s2c = Tail(second.s2c)]
    /\ UNCHANGED <<clientVars, serverVars, netVars, codecVars, channelVars>>

\* the second client's process closes its socket
Second_close ==
    /\ second.pc \in {"ready", "failed"}
    /\ second' = [second EXCEPT !.pc = "closed"]
    /\ UNCHANGED <<clientVars, serverVars, netVars, codecVars, channelVars>>

\* start(): accept() returns the queued connection; process_handshake up to
\* its second recv
Server_accept_second ==
    /\ s_pc = "accept"
    /\ second.pc = "syn_sent"
    /\ second.c2s # <<>>
    /\ \E parsed \in {parse_packet(Head(second.c2s))} :
          IF ~ ( /\ parsed.res = "packet"
                 /\ parsed.type = SYN_TYPE
                 /\ Len(parsed.payload) = 3 )
          THEN /\ second' = [second EXCEPT !.pc = "failed", !.c2s = <<>>]
               /\ s_sock' = "closed"
               /\ UNCHANGED <<s_pc, client_sessions>>
          ELSE \E session \in {NewSession(ByteProtocol(parsed.payload[1]),
                                          Min(parsed.payload[2], SERVER_MAX_FRAGMENT_SIZE),
                                          parsed.payload[3], SessionIdOf(SecondAddr))} :
                 /\ client_sessions' =
                       [a \in DOMAIN client_sessions \cup {SecondAddr} |->
                           IF a = SecondAddr THEN session ELSE client_sessions[a]]
                 /\ second' =
                       [second EXCEPT
                          !.c2s = Tail(second.c2s),
                          !.s2c = Append(second.s2c,
                                    create_packet(ACK_TYPE,
                                       SynAckJson(1, session.protocol,
                                                  session.max_fragment_size,
                                                  session.window_size,
                                                  session.session_id), 0))]
                 /\ s_sock' = "open"
                 /\ s_pc' = "hs_ack_second"
    /\ UNCHANGED <<clientVars, s_channel, s_delivered, s_dropped, netVars, codecVars, channelVars>>

\* process_handshake of the second connection from its second recv
Server_second_handshake_ack ==
    /\ s_pc = "hs_ack_second"
    /\ \/ \* recv returned b''
          /\ second.c2s = <<>>
          /\ second.pc = "closed"
          /\ s_sock' = "closed"
          /\ s_pc' = "accept"
          /\ UNCHANGED <<client_sessions, second>>
       \/ /\ second.c2s # <<>>
          /\ \E parsed \in {parse_packet(Head(second.c2s))} :
                IF ~ ( /\ parsed.res = "packet"
                       /\ parsed.type = HANDSHAKE_ACK_TYPE
                       /\ SecondAddr \in DOMAIN client_sessions )
                THEN /\ s_sock' = "closed"
                     /\ s_pc' = "accept"
                     /\ second' = [second EXCEPT !.c2s = <<>>]
                     /\ UNCHANGED client_sessions
                ELSE /\ client_sessions' =
                           [client_sessions EXCEPT ![SecondAddr].handshake_complete = TRUE]
                     /\ second' = [second EXCEPT !.c2s = Tail(second.c2s)]
                     /\ s_pc' = "messages_second"
                     /\ UNCHANGED s_sock
    /\ UNCHANGED <<clientVars, s_channel, s_delivered, s_dropped, netVars, codecVars, channelVars>>

\* handle_client_messages of the second connection: the second client sends
\* nothing more, so the recv returns when it has closed (b''): break, delete
\* the session, close the socket, back to accept()
Server_second_messages ==
    /\ s_pc = "messages_second"
    /\ second.pc = "closed"
    /\ client_sessions' =
          [a \in (DOMAIN client_sessions) \ {SecondAddr} |-> client_sessions[a]]
    /\ s_sock' = "closed"
    /\ s_pc' = "accept"
    /\ UNCHANGED <<clientVars, s_channel, s_delivered, s_dropped, netVars, codecVars, second,
                   channelVars>>

\* the first client's connect() has returned True: its connection is
\* established and idle, the server is in its handle_client_messages
AcceptInit ==
    /\ \E protocol \in Protocols, f \in FragSizes, w \in WindowSizes :
          LET negotiated == Min(f, SERVER_MAX_FRAGMENT_SIZE)
          IN  /\ c_protocol = protocol
              /\ c_max_fragment_size = negotiated
              /\ c_window_size = w
              /\ client_sessions =
                    (ClientAddr :>
                       [NewSession(protocol, negotiated, w, SessionIdOf(ClientAddr))
                          EXCEPT !.handshake_complete = TRUE])
    /\ c_pc = "ready"
    /\ c_sock = "open"
    /\ c_blocking = "blocking"
    /\ handshake_complete = TRUE
    /\ session_id = SessionIdOf(ClientAddr)
    /\ c_channel = Normal
    /\ base_seq_num = 0
    /\ next_seq_num = 0
    /\ packet_buffer = <<>>
    /\ ack_received = {}
    /\ retry_count = 0
    /\ since_last_action = "within"
    /\ c_message = <<>>
    /\ fragments = <<>>
    /\ c_call = "connect"
    /\ c_result = "true"
    /\ c_last = NoEvent
    /\ s_pc = "messages"
    /\ s_sock = "open"
    /\ s_channel \in ServerChannels
    /\ s_delivered = <<>>
    /\ s_dropped = FALSE
    /\ NetEmpty
    /\ CodecIdle
    /\ NoSecond
    /\ ChannelIdle

AcceptNext ==
    \/ Client_set_channel_conditions
    \/ Client_disconnect
    \/ Client_disconnect_acknowledged
    \/ Client_disconnect_unacknowledged
    \/ Server_handle_client_messages
    \/ Second_connect
    \/ Second_connect_syn_ack
    \/ Second_close
    \/ Server_accept_second
    \/ Server_second_handshake_ack
    \/ Server_second_messages

\* the server's thread runs whenever it is not blocked in a recv or in
\* accept() (s_pc enables at most one of its steps), and so does the second
\* client's connect() call; when the first client calls anything is up to
\* its user
SpecAccept ==
    /\ AcceptInit
    /\ [][AcceptNext]_vars
    /\ WF_vars(Server_handle_client_messages \/ Server_accept_second
                  \/ Server_second_handshake_ack \/ Server_second_messages)
    /\ WF_vars(Second_connect_syn_ack)

\* C26: concurrent connections: while one client's connection is established
\* and idle, a second client that has connected and sent its SYN eventually
\* receives its SYN_ACK and completes its handshake.
SecondClientServed ==
    ( /\ second.pc = "syn_sent"
      /\ c_pc = "ready" /\ handshake_complete /\ c_sock = "open"
      /\ s_pc = "messages" )
        ~> (second.pc = "ready" \/ c_call = "disconnect")

-----------------------------------------------------------------------------
(* Channel harness: a NetworkDevice whose probabilities are set to any     *)
(* values, and simulate_channel called on drawn inputs: byte strings (what *)
(* the server passes) and str messages (what Client.send_message passes)   *)

AllChannels ==
    [loss : {"zero", "mid", "one"}, corruption : {"zero", "mid", "one"},
     delay : {"zero", "mid", "one"}]

ChannelInputs ==
    {[py |-> "bytes", value |-> p] : p \in BytesUpTo(MaxPayloadLen)}
        \cup {[py |-> "str", value |-> m] : m \in Messages}

ChannelInit ==
    /\ ClientConstructed("gbn", 3, 4)
    /\ ServerConstructed
    /\ NetEmpty
    /\ CodecIdle
    /\ NoSecond
    /\ ChannelIdle

\* NetworkDevice.set_channel_conditions
Device_set_channel_conditions ==
    /\ s_channel' \in AllChannels
    /\ UNCHANGED <<clientVars, s_pc, s_sock, client_sessions, s_delivered, s_dropped, netVars,
                   codecVars, second, channelVars>>

\* one call of simulate_channel
Device_simulate_channel ==
    /\ \E d \in ChannelInputs :
          /\ ch_data' = d
          /\ ch_out' \in IF d.py = "str" THEN simulate_channel_str(d.value, s_channel)
                         ELSE simulate_channel(d.value, s_channel)
    /\ UNCHANGED <<clientVars, serverVars, netVars, codecVars, second>>

ChannelNext == Device_set_channel_conditions \/ Device_simulate_channel

SpecChannel == ChannelInit /\ [][ChannelNext]_vars

\* C27: channel simulator determinism and order: with loss_probability 1.0
\* every call returns no delivery; with the three probabilities 0.0 every call
\* returns its input unchanged; a lost packet is neither corrupted nor
\* delayed and a corrupted packet is not delayed.
ChannelDeterminismAndOrder ==
    [][ channelVars' # channelVars =>
          /\ s_channel.loss = "one" => ch_out' = Lost
          /\ s_channel = Normal
                => ch_out' = Outcome("passed", ch_data'.value, FALSE, FALSE)
          /\ ch_out'.kind = "lost" => (~ch_out'.corrupted /\ ~ch_out'.slept)
          /\ ch_out'.corrupted => ~ch_out'.slept
          /\ (s_channel.loss = "zero" /\ s_channel.corruption = "one")
                => ~ch_out'.slept ]_vars

ChannelDeterminismAndOrderWitness ==
    /\ s_channel = [loss |-> "one", corruption |-> "one", delay |-> "one"]
    /\ ch_data = [py |-> "bytes", value |-> <<1, 255>>]
    /\ ch_out = Lost

\* Number of positions at which two byte strings of one length differ
DifferingBytes(a, b) == Cardinality({i \in 1..Len(a) : a[i] # b[i]})

\* C28: channel corruption: with loss_probability 0.0 and
\* corruption_probability 1.0 every call returns, for every payload given
\* (every length from 0 up, the values each endpoint passes), a payload of
\* the same length differing from the input in exactly one byte, and raises
\* no error.
ChannelCorruption ==
    [][ (channelVars' # channelVars /\ s_channel.loss = "zero" /\ s_channel.corruption = "one")
          => /\ ch_out'.kind = "passed"
             /\ Len(ch_out'.data) = Len(ch_data'.value)
             /\ DifferingBytes(ch_out'.data, ch_data'.value) = 1 ]_vars

\* the same for the non-empty byte strings
ChannelCorruptionNonEmptyBytes ==
    [][ ( /\ channelVars' # channelVars /\ s_channel.loss = "zero" /\ s_channel.corruption = "one"
          /\ ch_data'.py = "bytes" /\ ch_data'.value # <<>> )
          => /\ ch_out'.kind = "passed"
             /\ Len(ch_out'.data) = Len(ch_data'.value)
             /\ DifferingBytes(ch_out'.data, ch_data'.value) = 1 ]_vars

-----------------------------------------------------------------------------
(* send_message: its failures and its cleanup (Spec) *)

\* C29: failures surface as result values: send_message called on a client
\* whose handshake is not complete (never connected, connect failed, or after
\* a disconnect) returns False, raises no exception and transmits no packet.
SendWithoutHandshakeReturnsFalse ==
    [][ (Client_send_message /\ ~handshake_complete)
          => (c_result' = "false" /\ c2s' = c2s) ]_vars

\* the same for a client whose connect() has been called
SendWithoutHandshakeAfterConnect ==
    [][ (Client_send_message /\ ~handshake_complete /\ c_sock # "unset")
          => (c_result' = "false" /\ c2s' = c2s) ]_vars

\* C30: cleanup on exit: whenever send_message returns, after success, after
\* retry exhaustion or after an error raised inside the sliding-window loop,
\* packet_buffer and the acked set are empty and the socket is in blocking
\* mode.
CleanupOnExit ==
    [][ (c_call = "send" /\ c_result = "none" /\ c_result' # "none")
          => ( /\ packet_buffer' = <<>>
               /\ ack_received' = {}
               /\ c_blocking' = "blocking" ) ]_vars

\* the socket is back in blocking mode at every return, and the buffers are
\* empty at every return of success
CleanupOnSuccess ==
    [][ (c_call = "send" /\ c_result = "none" /\ c_result' # "none")
          => ( /\ c_blocking' = "blocking"
               /\ c_result' = "true"
                    => (packet_buffer' = <<>> /\ ack_received' = {}) ) ]_vars

-----------------------------------------------------------------------------
(* Retransmission by the sender (SpecWindow) *)

\* C31: timeout retransmission per protocol: a timeout that leaves retry_count
\* at or below max_retries makes the GBN sender write again every buffered
\* packet with sequence in [base_seq_num, next_seq_num) and the SR sender
\* exactly those of them whose sequence is not in ack_received; base_seq_num,
\* next_seq_num and packet_buffer stay as they are and retry_count grows by one.
TimeoutRetransmission ==
    [][ (c_pc = "tick" /\ retry_count' # retry_count /\ retry_count < max_retries)
          => LET due == {q \in base_seq_num..(next_seq_num - 1) :
                            /\ q \in DOMAIN packet_buffer
                            /\ c_protocol = "sr" => q \notin ack_received}
                 resent == SubSeq(c2s', Len(c2s) + 1, Len(c2s'))
             IN  /\ SubSeq(c2s', 1, Len(c2s)) = c2s
                 /\ Len(resent) = Cardinality(due)
                 /\ \A q \in due : \E i \in 1..Len(resent) : resent[i] = packet_buffer[q]
                 /\ base_seq_num' = base_seq_num
                 /\ next_seq_num' = next_seq_num
                 /\ packet_buffer' = packet_buffer
                 /\ retry_count' = retry_count + 1 ]_vars

\* an SR sender right after a timeout that skipped an acknowledged packet
\* still in its buffer
TimeoutRetransmissionWitness ==
    /\ c_protocol = "sr"
    /\ c_last = Event("timeout", 0, base_seq_num)
    /\ c_pc = "fill"
    /\ retry_count >= 1
    /\ \E q \in ack_received :
          /\ q \in DOMAIN packet_buffer
          /\ base_seq_num < q /\ q < next_seq_num
          /\ packet_buffer[q] \notin {c2s[i] : i \in 1..Len(c2s)}
    /\ c2s # <<>>

\* C32: NACK handling per protocol: a NACK of any sequence makes the GBN sender
\* write again every buffered packet in [base_seq_num, next_seq_num); a
\* NACK(seq) makes the SR sender write again the buffered packet seq if it is
\* in packet_buffer and nothing otherwise; base_seq_num, next_seq_num,
\* packet_buffer, ack_received and retry_count stay as they are.
NackRetransmission ==
    [][ LET read == parse_packet(Head(s2c))
        IN  ( /\ c_pc = "poll" /\ ClientReads
              /\ read.res = "packet" /\ read.type = NACK_TYPE )
              => LET due == IF c_protocol = "gbn"
                            THEN {q \in base_seq_num..(next_seq_num - 1) :
                                     q \in DOMAIN packet_buffer}
                            ELSE {read.sequence} \cap DOMAIN packet_buffer
                     resent == SubSeq(c2s', Len(c2s) + 1, Len(c2s'))
                 IN  /\ SubSeq(c2s', 1, Len(c2s)) = c2s
                     /\ Len(resent) = Cardinality(due)
                     /\ \A q \in due :
                           \E i \in 1..Len(resent) : resent[i] = packet_buffer[q]
                     /\ UNCHANGED <<base_seq_num, next_seq_num, packet_buffer,
                                    ack_received, retry_count>> ]_vars

\* a GBN sender that has resent its window of two or more packets on a NACK
NackRetransmissionWitness ==
    /\ c_protocol = "gbn"
    /\ c_last.op = "nack"
    /\ c_pc = "poll"
    /\ Len(c2s) >= 2
    /\ Len(c2s) = Cardinality(DOMAIN packet_buffer)

\* C33: timeout clock: the timeout is measured from the last state-changing
\* event, so every received ACK or NACK restarts it: a timeout (a timeout
\* retransmission, an increment of retry_count) is taken only when more than
\* self.timeout has passed since the most recent acknowledgment was received
\* and since the most recent retransmission was sent.
TimeoutClockRestarts ==
    [][ (c_pc = "tick" /\ retry_count' # retry_count)
          => since_last_action = "over" ]_vars

-----------------------------------------------------------------------------
(* The server's session registry *)

\* C34: session lifecycle: every entry of client_sessions belongs to a
\* connection that is still open; when a connection has ended (DISCONNECT,
\* stream closure, an error in its handler, a handshake that failed after
\* the SYN was processed) no session of that peer remains.
SessionLifecycle ==
    ClientAddr \in DOMAIN client_sessions => s_sock = "open"

\* the same for the connections that ended in handle_client_messages
SessionLifecycleAfterHandshake ==
    [][ (s_pc = "messages" /\ s_sock' = "closed")
          => ClientAddr \notin DOMAIN client_sessions' ]_vars

-----------------------------------------------------------------------------
(* Framing errors in the message loop (SpecMessages) *)

\* C35: framing errors are recovered from by dropping: when the message loop
\* of an established session reads bytes that fail to parse (a truncated
\* header, a truncated payload, a checksum mismatch), it drops them, leaves the
\* session unchanged and registered and the connection open, answers nothing,
\* and goes on to read the next bytes.
FramingErrorsDropped ==
    [][ LET k == Len(c2s) - Len(c2s')
        IN  ( /\ s_pc = "messages"
              /\ ServerReads
              /\ SessionValid
              /\ parse_packet(RecvChunk(c2s, k)).res # "packet" )
            => ( /\ UNCHANGED <<client_sessions, s_sock, s_pc, s2c, s_delivered>>
                 /\ c2s' = RecvRest(c2s, k)
                 /\ SessionValid' ) ]_vars

\* bytes cut short were dropped by the loop, and the session is as it was
FramingErrorsDroppedWitness ==
    /\ s_dropped
    /\ SessionValid
    /\ client_sessions[ClientAddr].expected_seq_num = 0
    /\ client_sessions[ClientAddr].received_buffer = <<>>
    /\ c2s = <<Slice(create_packet(DATA_TYPE, <<72>>, 0), 0, HEADER_SIZE)>>
    /\ s2c = <<>>

-----------------------------------------------------------------------------
(* Type codes on the wire (Spec) *)

\* C36: packet type codes: the semantic packet types DATA, ACK, NACK, SYN,
\* SYN_ACK, HANDSHAKE_ACK and DISCONNECT are sent with pairwise distinct type
\* codes, so that the type field alone tells the kinds apart: the answer to a
\* SYN and the acknowledgment of a DISCONNECT do not carry the code of the
\* acknowledgment of a DATA packet.
TypeCodesTellKindsApart ==
    [][ LET read == parse_packet(Head(c2s))
            sent == parse_packet(s2c'[Len(s2c')])
        IN  ( /\ ServerReads
              /\ Len(s2c') > Len(s2c)
              /\ read.res = "packet"
              /\ read.type \in {SYN_TYPE, DISCONNECT_TYPE} )
            => sent.type # ACK_TYPE ]_vars

-----------------------------------------------------------------------------
(* Termination of the sender loop (Spec) *)

\* C37: sender termination: for every window size the handshake can
\* negotiate, 0 included, send_message of a non-empty message terminates:
\* execute_sliding_window is never in the state from which it cannot leave,
\* base = next below the fragment count (so that no timeout is ever taken),
\* the window admitting no further packet and nothing on its way in either
\* direction.
SenderLoopNeverStalls ==
    ~ ( /\ c_pc \in {"fill", "poll", "tick"}
        /\ base_seq_num = next_seq_num
        /\ base_seq_num < Len(fragments)
        /\ next_seq_num >= base_seq_num + c_window_size
        /\ c2s = <<>>
        /\ s2c = <<>> )

\* the same for the window sizes of at least 1
SenderLoopNeverStallsPositiveWindow ==
    c_window_size >= 1 => SenderLoopNeverStalls

-----------------------------------------------------------------------------
(* Acknowledgments outside the window (SpecWindow) *)

\* C38: ACKs outside [base_seq, next_seq) are ignored: Client.handle_ack,
\* under GBN and under SR, leaves the window state (base, next, the packet
\* buffer, the set of acknowledged sequence numbers) unchanged when the ACK's
\* sequence number is below base_seq or at least next_seq.
AcksOutsideWindowIgnored ==
    [][ LET read == parse_packet(Head(s2c))
        IN  ( /\ c_pc = "poll"
              /\ ClientReads
              /\ read.res = "packet"
              /\ read.type = ACK_TYPE
              /\ read.sequence \notin base_seq_num..(next_seq_num - 1) )
            => UNCHANGED <<base_seq_num, next_seq_num, packet_buffer, ack_received>> ]_vars

-----------------------------------------------------------------------------
(* The sender loop against the receiver engines, over a stream that loses  *)
(* nothing: execute_sliding_window, handle_gbn_message, handle_sr_message  *)

EnginesInit ==
    /\ \E protocol \in Protocols, w \in 1..MaxWindow, n \in 1..MaxFragments :
          /\ c_protocol = protocol
          /\ c_window_size = w
          /\ fragments = Letters(n)
          /\ c_message = Flatten(Letters(n))
          /\ client_sessions =
                (ClientAddr :>
                   [NewSession(protocol, 1, w, SessionIdOf(ClientAddr))
                      EXCEPT !.handshake_complete = TRUE])
    /\ c_pc = "fill"
    /\ c_sock = "open"
    /\ c_blocking = "nonblocking"
    /\ handshake_complete = TRUE
    /\ session_id = SessionIdOf(ClientAddr)
    /\ c_max_fragment_size = 1
    /\ c_channel = Normal
    /\ base_seq_num = 0
    /\ next_seq_num = 0
    /\ packet_buffer = <<>>
    /\ ack_received = {}
    /\ retry_count = 0
    /\ since_last_action = "within"
    /\ c_call = "send"
    /\ c_result = "none"
    /\ c_last = NoEvent
    /\ s_pc = "engine"
    /\ s_sock = "open"
    /\ s_channel = Normal
    /\ s_delivered = <<>>
    /\ s_dropped = FALSE
    /\ NetEmpty
    /\ CodecIdle
    /\ NoSecond
    /\ ChannelIdle

EnginesNext ==
    \/ Client_send_packets_in_window
    \/ Client_process_acks
    \/ Client_process_acks_done
    \/ Client_no_timeout
    \/ Client_handle_timeout
    \/ Server_handle_gbn_message
    \/ Server_handle_sr_message

SpecEngines == EnginesInit /\ [][EnginesNext]_vars

\* C39: no packet is lost to stream coalescing: on a stream that loses
\* nothing every ACK the receiver writes is handled by process_acks, also when
\* one recv returns the bytes of several packets: after the step that read
\* them, no sequence number acknowledged by a packet read is still outstanding.
NoAckLostToCoalescing ==
    [][ (c_pc = "poll" /\ ClientReads)
          => \A i \in 1..(Len(s2c) - Len(s2c')) :
                LET read == parse_packet(s2c[i])
                IN  (read.res = "packet" /\ read.type = ACK_TYPE)
                      => \/ read.sequence < base_seq_num'
                         \/ read.sequence \in ack_received' ]_vars

\* the same for the recv calls that return the bytes of one packet
NoAckLostOnePacketPerRecv ==
    [][ (c_pc = "poll" /\ ClientReads /\ Len(s2c) - Len(s2c') = 1)
          => LET read == parse_packet(Head(s2c))
             IN  (read.res = "packet" /\ read.type = ACK_TYPE)
                   => \/ read.sequence < base_seq_num'
                      \/ read.sequence \in ack_received' ]_vars

-----------------------------------------------------------------------------
(* Progress of the window within a message (SpecWindow, Spec) *)

\* C40: monotonic progress within a message: during one send_message
\* base_seq_num and next_seq_num never decrease, whatever ACKs, NACKs and
\* timeouts come, under GBN and under SR.
MonotonicProgress ==
    [][ /\ base_seq_num' >= base_seq_num
        /\ next_seq_num' >= next_seq_num ]_vars

\* the base has moved on after an ACK, a NACK was answered and a timeout taken
MonotonicProgressWitness ==
    /\ c_pc = "poll"
    /\ c_last.op = "nack"
    /\ base_seq_num >= 1
    /\ next_seq_num > base_seq_num
    /\ retry_count >= 1

\* base_seq_num, next_seq_num and retry_count go back only in the step that
\* starts the next send_message, reset_parameters setting the three to 0
ResetOnlyBySendMessage ==
    [][ ( \/ base_seq_num' < base_seq_num
          \/ next_seq_num' < next_seq_num
          \/ retry_count' < retry_count )
        => ( /\ c_pc \in {"new", "ready"}
             /\ c_call' = "send"
             /\ handshake_complete
             /\ base_seq_num' = 0
             /\ next_seq_num' = 0
             /\ retry_count' = 0 ) ]_vars

====
